---- MODULE Spec2Model ----
(***************************************************************************)
(* A model of the P2P file-sharing node: the Kademlia routing table        *)
(* (backend/src/dht/routing.py, src/dht/utils.py), the chunk store         *)
(* (src/file/storage.py), the pooled transfer connection                   *)
(* (backend/src/transfer/protocol.py) and the swarming downloader          *)
(* (backend/src/transfer/downloader.py).                                   *)
(*                                                                         *)
(* Each subsystem has its own specification (SpecRouting, SpecStore, ...)  *)
(* over its own variables; the variables of the other subsystems are held  *)
(* at their initial value.                                                 *)
(***************************************************************************)
EXTENDS Integers, Sequences, FiniteSets, TLC

(***************************************************************************)
(* Bounds.  ID_BITS is 160 and K is 20 in the source; the model keeps the  *)
(* code's arithmetic and runs it on a narrower id space and a smaller      *)
(* bucket.                                                                 *)
(***************************************************************************)
\* width of a node id in bits (ID_BITS = 160, src/dht/utils.py:31)
IdBits == 4
\* bucket capacity (K = 20, backend/src/dht/routing.py:47)
K == 2
\* number of node ids the rest of the network holds (ids 0 .. NetSize-1)
NetSize == 6
\* distinct byte values of file content, beside the zero byte of a file hole
NumBytes == 2
\* chunks in a manifest (a chunk is one byte long: chunk_size = 1)
MaxChunks == 2
\* concurrent callers of ChunkStorage.store_chunk
NumPuts == 2
\* peers a download can be given
NumPeers == 2
\* concurrent download_chunk calls on one ChunkDownloader
NumCallers == 3
\* FileDownloader.max_concurrent (default 5, backend/src/transfer/downloader.py:291)
max_concurrent == 1
\* queries a lookup sends in parallel (ALPHA = 3, backend/src/dht/routing.py:48)
ALPHA == 2
\* contacts the node exchanges messages with while its table is observed
NumContacts == 4
\* targets one _refresh_buckets call looks up (targets[:5], src/dht/kademlia.py:651)
MaxRefresh == 2
\* the clock stops after MaxTime maintenance periods
MaxTime == 4
\* age at which a peer record expires, in maintenance periods (max_age = 1800 s
\* = 30 periods of 60 s, src/dht/kademlia.py:668)
PeerMaxAge == 2
\* peer records a node is sent, IP addresses and transfer ports they name
MaxRecords == 2
NumIps == 2
NumPorts == 2
\* distinct keys and distinct values of the DHT's key-value store
NumKeys == 2
NumValues == 2
\* contacts that leave the network while the node runs
NumDead == 1
\* start() calls on one KademliaNode
MaxStarts == 2
\* concurrent callers of ChunkStorage.get_chunk
NumReaders == 2
\* missing chunks and peers of one _assign_chunks_round_robin call
MaxMissing == 5
MaxAssignPeers == 3
\* send_request calls of one node
NumRequests == 2
\* DHTProtocol.REQUEST_TIMEOUT, in sweep periods of _cleanup_pending (1 s)
REQUEST_TIMEOUT == 2

VARIABLES
    \* ---- routing table (RoutingTable, KBucket) ----
    node_id,        \* RoutingTable.node_id
    buckets,        \* buckets[i] : KBucket._nodes of bucket i, oldest first
    replacement,    \* replacement[i] : KBucket._replacement_cache, oldest first
    rt_call,        \* the routing-table method called last, its argument and result
    \* ---- chunk store (ChunkStorage) on its filesystem ----
    fs_inode,       \* fs_inode[n] : the bytes of file n
    fs_chunks,      \* fs_chunks[h] : the file at chunks/<aa>/<h>, or NoFile
    fs_temp,        \* fs_temp[h] : the file at temp/<h>.tmp, or NoFile
    fs_out,         \* the file at the output path files/<name>, or NoFile
    put,            \* put[t] : the store_chunk call of caller t
    ra,             \* the reassemble_file call
    \* ---- file download (FileDownloader, ChunkDownloader) ----
    dl,             \* the download_file call: its arguments, locals and progress
    task,           \* task[t] : a download_from_peer or retry_chunk coroutine
    pool,           \* pool[p] : ChunkDownloader._connections, per peer
    \* ---- one pooled connection (TransferProtocol) and its callers ----
    pool_lock,      \* ChunkDownloader._connection_lock: its holder, or NoCaller
    conns,          \* conns[c] : the TransferProtocol objects created so far
    pooled,         \* pooled[p] : the connection in _connections for peer p
    call,           \* call[t] : a download_chunk call
    \* ---- the DHT node (KademliaNode) and the nodes it talks to ----
    alive,          \* the contacts that answer a request sent to them
    net,            \* net[n] : the routing table of the running node with id n
    lk,             \* the _iterative_lookup call in progress
    boot,           \* the bootstrap calls made so far, and the one in progress
    \* ---- files in the DHT (P2PNode.share, P2PNode.download) ----
    dht_values,     \* dht_values[k] : the value find_value(k) delivers
    dht_peers,      \* the keys get_peers finds a peer for
    share_call,     \* the share or download call made last
    \* ---- data a KademliaNode keeps (values, announced peers) ----
    now,            \* time.time(), in maintenance periods (60 s)
    storage,        \* storage[k] : _storage[k] with _storage_timestamps[k]
    peer_records,   \* peer_records[h] : _peers[h], a set of (ip, port, timestamp)
    bootstrap_complete, \* KademliaNode._bootstrap_complete
    next_refresh,   \* the time _periodic_refresh wakes up next
    kad_call,       \* the KademliaNode call or handler run last
    \* ---- requests of a node over UDP (DHTProtocol) ----
    _pending,       \* DHTProtocol._pending : message id -> (future, timestamp)
    requests,       \* requests[r] : a send_request call and its datagrams
    swept,          \* whether _cleanup_pending has run in the current second
    \* ---- a KademliaNode being started and stopped ----
    _running,       \* KademliaNode._running
    transport,      \* KademliaNode.transport, the UDP endpoint
    refresh_tasks,  \* the _periodic_refresh tasks created so far
    \* ---- readers of the chunk store (ChunkStorage.get_chunk) ----
    get,            \* get[t] : the get_chunk call of reader t
    \* ---- TransferMessage.from_reader (transfer/protocol.py) ----
    rx,             \* the frame a connection of the transfer server is receiving
    \* ---- manifests a node keeps on disk (ChunkStorage, P2PNode) ----
    fs_manifests    \* fs_manifests[h] : the manifest in manifests/<h>.json, or NoManifest

rtVars == <<node_id, buckets, replacement, rt_call>>
fsVars == <<fs_inode, fs_chunks, fs_temp, fs_out, put, ra>>
dlVars == <<dl, task, pool>>
tpVars == <<pool_lock, conns, pooled, call>>
obVars == <<alive>>
lkVars == <<net, lk, boot>>
shVars == <<dht_values, dht_peers, share_call>>
kdVars == <<now, storage, peer_records, bootstrap_complete, next_refresh, kad_call>>
pdVars == <<_pending, requests, swept>>
lcVars == <<_running, transport, refresh_tasks>>
rdVars == <<get>>
rxVars == <<rx>>
mfVars == <<fs_manifests>>
dhtVars == <<obVars, lkVars, shVars, kdVars, pdVars, lcVars, rdVars, rxVars, mfVars>>
vars == <<node_id, buckets, replacement, rt_call,
          fs_inode, fs_chunks, fs_temp, fs_out, put, ra,
          dl, task, pool, pool_lock, conns, pooled, call,
          alive, net, lk, boot, dht_values, dht_peers, share_call,
          now, storage, peer_records, bootstrap_complete, next_refresh, kad_call,
          _pending, requests, swept,
          _running, transport, refresh_tasks,
          get,
          rx,
          fs_manifests>>

\* A specification runs one subsystem; the variables of the others are parked.
Parked == "parked"
RoutingParked ==
    /\ node_id = Parked /\ buckets = Parked /\ replacement = Parked
    /\ rt_call = Parked
StoreParked ==
    /\ fs_inode = Parked /\ fs_chunks = Parked /\ fs_temp = Parked
    /\ fs_out = Parked /\ put = Parked /\ ra = Parked
DownloadParked == dl = Parked /\ task = Parked /\ pool = Parked
TransferParked ==
    /\ pool_lock = Parked /\ conns = Parked /\ pooled = Parked
    /\ call = Parked
ObserveParked == alive = Parked
LookupParked == net = Parked /\ lk = Parked /\ boot = Parked
notLookup == <<rtVars, fsVars, dlVars, tpVars, obVars, shVars, kdVars, pdVars, lcVars, rdVars, rxVars, mfVars>>
notShare == <<rtVars, fsVars, dlVars, tpVars, obVars, lkVars, kdVars, pdVars, lcVars, rdVars, rxVars, mfVars>>
notData == <<rtVars, fsVars, dlVars, tpVars, obVars, lkVars, shVars, pdVars, lcVars, rdVars, rxVars, mfVars>>
notProtocol == <<rtVars, fsVars, dlVars, tpVars, obVars, lkVars, shVars, kdVars, lcVars, rdVars, rxVars, mfVars>>
notLifecycle == <<rtVars, fsVars, dlVars, tpVars, obVars, lkVars, shVars, kdVars, pdVars, rdVars, rxVars, mfVars>>
notReaders == <<rtVars, fsVars, dlVars, tpVars, obVars, lkVars, shVars, kdVars, pdVars, lcVars, rxVars, mfVars>>
ShareParked ==
    /\ dht_values = Parked /\ dht_peers = Parked /\ share_call = Parked
DataParked ==
    /\ now = Parked /\ storage = Parked /\ peer_records = Parked
    /\ bootstrap_complete = Parked /\ next_refresh = Parked /\ kad_call = Parked
ProtocolParked == _pending = Parked /\ requests = Parked /\ swept = Parked
LifecycleParked == _running = Parked /\ transport = Parked /\ refresh_tasks = Parked
ReadersParked == get = Parked
FrameParked == rx = Parked
ManifestsParked == fs_manifests = Parked
DhtParked ==
    /\ ObserveParked /\ LookupParked /\ ShareParked /\ DataParked
    /\ ProtocolParked
    /\ LifecycleParked
    /\ ReadersParked
    /\ FrameParked
    /\ ManifestsParked
notRouting == <<fsVars, dlVars, tpVars, dhtVars>>
notStore == <<rtVars, dlVars, tpVars, dhtVars>>
notDownload == <<rtVars, tpVars, dhtVars>>
notTransfer == <<rtVars, fsVars, dlVars, dhtVars>>

----------------------------------------------------------------------------
(***************************************************************************)
(* Identifier algebra: src/dht/utils.py                                    *)
(***************************************************************************)
RECURSIVE Pow2(_)
Pow2(n) == IF n = 0 THEN 1 ELSE 2 * Pow2(n - 1)

NodeIds == 0 .. (Pow2(IdBits) - 1)

\* bitwise xor of two naturals, bit by bit (bytes(a ^ b for a, b in zip(id1, id2)))
RECURSIVE XorBits(_, _)
XorBits(a, b) ==
    IF a = 0 /\ b = 0 THEN 0
    ELSE (((a % 2) + (b % 2)) % 2) + (2 * XorBits(a \div 2, b \div 2))

xor_distance(id1, id2) == XorBits(id1, id2)

\* int.bit_length()
RECURSIVE bit_length(_)
bit_length(n) == IF n = 0 THEN 0 ELSE 1 + bit_length(n \div 2)

\* a variant that subtracts the bit length from ID_BITS - 1
get_bucket_index_from_top(a, b) ==
    LET distance == xor_distance(a, b)
    IN  IF distance = 0 THEN -1 ELSE (IdBits - 1) - bit_length(distance)

get_bucket_index(a, b) ==
    LET distance == xor_distance(a, b)
    IN  IF distance = 0 THEN -1 ELSE IdBits - bit_length(distance)

----------------------------------------------------------------------------
(***************************************************************************)
(* K-buckets and the routing table: backend/src/dht/routing.py             *)
(* A contact (NodeInfo) is identified by its node_id: NodeInfo.__eq__ and  *)
(* __hash__ compare node_id only, and both OrderedDicts are keyed by it.   *)
(* A bucket is the sequence of its keys, oldest first.                     *)
(***************************************************************************)
BucketIdx == 0 .. (IdBits - 1)
NoNode == -1

SeqIds(s) == { s[i] : i \in 1 .. Len(s) }
Without(s, x) == SelectSeq(s, LAMBDA y : y # x)

\* OrderedDict.move_to_end(key)
MoveToEnd(s, x) == Append(Without(s, x), x)
\* OrderedDict[key] = value: an existing key keeps its place, a new one goes last
DictSet(s, x) == IF x \in SeqIds(s) THEN s ELSE Append(s, x)

\* KBucket.is_full
is_full(nodes) == Len(nodes) >= K

\* while len(self._replacement_cache) > self.k: popitem(last=False)
RECURSIVE BoundCache(_)
BoundCache(c) == IF Len(c) > K THEN BoundCache(Tail(c)) ELSE c

\* a bucket that makes room for the newcomer by dropping its oldest contact
KBucket_add_node_evicting(nodes, cache, x) ==
    IF x \in SeqIds(nodes)
    THEN [nodes |-> MoveToEnd(nodes, x), cache |-> cache, ret |-> NoNode]
    ELSE IF ~is_full(nodes)
    THEN [nodes |-> Append(nodes, x), cache |-> cache, ret |-> NoNode]
    ELSE [nodes |-> Append(Tail(nodes), x), cache |-> cache, ret |-> NoNode]

\* a bucket whose capacity test is len > k and whose cache is never trimmed
KBucket_add_node_unbounded(nodes, cache, x) ==
    IF x \in SeqIds(nodes)
    THEN [nodes |-> MoveToEnd(nodes, x), cache |-> cache, ret |-> NoNode]
    ELSE IF ~(Len(nodes) > K)
    THEN [nodes |-> Append(nodes, x), cache |-> cache, ret |-> NoNode]
    ELSE [nodes |-> nodes, cache |-> DictSet(cache, x), ret |-> Head(nodes)]

\* KBucket.add_node: the new bucket, the new cache and the returned contact
KBucket_add_node(nodes, cache, x) ==
    IF x \in SeqIds(nodes)
    THEN [nodes |-> MoveToEnd(nodes, x), cache |-> cache, ret |-> NoNode]
    ELSE IF ~is_full(nodes)
    THEN [nodes |-> Append(nodes, x), cache |-> cache, ret |-> NoNode]
    ELSE [nodes |-> nodes,
          cache |-> BoundCache(DictSet(cache, x)),
          ret   |-> Head(nodes)]

\* a bucket that removes a contact without promoting from its replacement cache
KBucket_remove_node_unpromoted(nodes, cache, x) ==
    IF x \notin SeqIds(nodes)
    THEN [nodes |-> nodes, cache |-> cache, ret |-> FALSE]
    ELSE [nodes |-> Without(nodes, x), cache |-> cache, ret |-> TRUE]

\* KBucket.remove_node
KBucket_remove_node(nodes, cache, x) ==
    IF x \notin SeqIds(nodes)
    THEN [nodes |-> nodes, cache |-> cache, ret |-> FALSE]
    ELSE IF cache # <<>>
    THEN [nodes |-> DictSet(Without(nodes, x), Head(cache)),
          cache |-> Tail(cache), ret |-> TRUE]
    ELSE [nodes |-> Without(nodes, x), cache |-> cache, ret |-> TRUE]

\* KBucket.mark_node_seen
KBucket_mark_node_seen(nodes, x) ==
    IF x \in SeqIds(nodes) THEN MoveToEnd(nodes, x) ELSE nodes

\* the node ids that senders and lookup results present to this node
Network == { x \in NodeIds : x < NetSize }
\* the ids this node may have drawn for itself: one of the network's range, or
\* the id farthest from all of them
SelfIds == Network \cup { Pow2(IdBits) - 1 }

InitRouting ==
    /\ node_id \in SelfIds
    /\ buckets = [i \in BucketIdx |-> <<>>]
    /\ replacement = [i \in BucketIdx |-> <<>>]
    /\ rt_call = [op |-> "init", id |-> NoNode, ret |-> NoNode]
    /\ StoreParked /\ DownloadParked /\ TransferParked /\ DhtParked

\* RoutingTable.add_node
add_node(x) ==
    /\ LET index == get_bucket_index(node_id, x)
       IN  IF x = node_id \/ index < 0
           THEN /\ rt_call' = [op |-> "add_node", id |-> x, ret |-> NoNode]
                /\ UNCHANGED <<buckets, replacement>>
           ELSE LET r == KBucket_add_node(buckets[index], replacement[index], x)
                IN  /\ buckets' = [buckets EXCEPT ![index] = r.nodes]
                    /\ replacement' = [replacement EXCEPT ![index] = r.cache]
                    /\ rt_call' = [op |-> "add_node", id |-> x, ret |-> r.ret]
    /\ UNCHANGED <<node_id, notRouting>>

\* RoutingTable.remove_node
remove_node(x) ==
    /\ LET index == get_bucket_index(node_id, x)
       IN  IF index < 0
           THEN /\ rt_call' = [op |-> "remove_node", id |-> x, ret |-> FALSE]
                /\ UNCHANGED <<buckets, replacement>>
           ELSE LET r == KBucket_remove_node(buckets[index], replacement[index], x)
                IN  /\ buckets' = [buckets EXCEPT ![index] = r.nodes]
                    /\ replacement' = [replacement EXCEPT ![index] = r.cache]
                    /\ rt_call' = [op |-> "remove_node", id |-> x, ret |-> r.ret]
    /\ UNCHANGED <<node_id, notRouting>>

\* RoutingTable.mark_node_seen
mark_node_seen(x) ==
    /\ LET index == get_bucket_index(node_id, x)
       IN  IF index < 0
           THEN UNCHANGED buckets
           ELSE buckets' = [buckets EXCEPT
                                ![index] = KBucket_mark_node_seen(buckets[index], x)]
    /\ rt_call' = [op |-> "mark_node_seen", id |-> x, ret |-> NoNode]
    /\ UNCHANGED <<node_id, replacement, notRouting>>

NextRouting ==
    \/ \E x \in Network : add_node(x)
    \/ \E x \in Network : remove_node(x)
    \/ \E x \in Network : mark_node_seen(x)

SpecRouting == InitRouting /\ [][NextRouting]_vars

----------------------------------------------------------------------------
(***************************************************************************)
(* Claims about the routing table                                          *)
(***************************************************************************)
NoDuplicates(s) == \A a, b \in 1 .. Len(s) : a # b => s[a] # s[b]

\* C8: after any sequence of add_node, remove_node and mark_node_seen every
\* k-bucket holds at most K contacts, never two with the same NodeId, and its
\* replacement cache never holds more than K entries.
C8_BucketBounded ==
    \A i \in BucketIdx :
        /\ Len(buckets[i]) <= K
        /\ NoDuplicates(buckets[i])
        /\ Len(replacement[i]) <= K

\* a full bucket with a full replacement cache, reached by offering a contact
C8_Witness ==
    \E i \in BucketIdx :
        /\ Len(buckets[i]) = K
        /\ Len(replacement[i]) = K
        /\ rt_call.op = "add_node"
        /\ rt_call.ret # NoNode

\* bit k of n, and the xor and its highest set bit written out from the bits
Bit(n, k) == (n \div Pow2(k)) % 2
XorOfBits(a, b) ==
    LET RECURSIVE Sum(_)
        Sum(k) == IF k < 0 THEN 0
                  ELSE (IF Bit(a, k) # Bit(b, k) THEN Pow2(k) ELSE 0) + Sum(k - 1)
    IN  Sum(IdBits - 1)
HighestSetBit(d) == CHOOSE k \in 0 .. (IdBits - 1) : Pow2(k) <= d /\ d < Pow2(k + 1)

\* C9: for two distinct ids bucket-index lies in [0, ID_BITS-1]; every contact
\* held in the routing table (bucket or replacement cache) sits in exactly one
\* bucket, the one with index ID_BITS-1 - highest-set-bit(xor(self, contact)),
\* and the node's own id is never stored.
C9_BucketIndex ==
    /\ rt_call.op = "init" =>
          \A a, b \in NodeIds :
              a # b => /\ get_bucket_index(a, b) \in BucketIdx
                       /\ get_bucket_index(a, b)
                            = (IdBits - 1) - HighestSetBit(XorOfBits(a, b))
    /\ \A i \in BucketIdx :
          \A x \in SeqIds(buckets[i]) \cup SeqIds(replacement[i]) :
              /\ x # node_id
              /\ i = (IdBits - 1) - HighestSetBit(XorOfBits(node_id, x))
              /\ \A j \in BucketIdx \ {i} :
                    x \notin SeqIds(buckets[j]) \cup SeqIds(replacement[j])

\* contacts in two different buckets, and one waiting in a replacement cache
C9_Witness ==
    \E i, j \in BucketIdx :
        /\ i # j
        /\ buckets[i] # <<>>
        /\ buckets[j] # <<>>
        /\ replacement[j] # <<>>

\* a bounded FIFO: the newcomer goes last, the oldest entry leaves on overflow
FifoPut(c, x) ==
    IF x \in SeqIds(c) THEN c
    ELSE IF Len(c) < K THEN Append(c, x) ELSE Append(Tail(c), x)

\* C10: offering a new contact to a full bucket never removes, replaces or
\* reorders a contact of that bucket (the newcomer only enters the FIFO
\* replacement cache); a contact leaves a bucket only through remove_node, and
\* the vacancy is filled by the oldest entry of the replacement cache, if any.
C10_PreferOld ==
    [][ \A i \in BucketIdx :
          /\ ( /\ rt_call'.op = "add_node"
               /\ get_bucket_index(node_id, rt_call'.id) = i
               /\ is_full(buckets[i])
               /\ rt_call'.id \notin SeqIds(buckets[i]) )
             => /\ buckets'[i] = buckets[i]
                /\ replacement'[i] = FifoPut(replacement[i], rt_call'.id)
          /\ \A x \in SeqIds(buckets[i]) \ SeqIds(buckets'[i]) :
                /\ rt_call'.op = "remove_node"
                /\ rt_call'.id = x
                /\ IF replacement[i] # <<>>
                   THEN /\ buckets'[i] = Append(Without(buckets[i], x),
                                                Head(replacement[i]))
                        /\ replacement'[i] = Tail(replacement[i])
                   ELSE /\ buckets'[i] = Without(buckets[i], x)
                        /\ replacement'[i] = replacement[i]
      ]_vars

\* a contact was removed from a full bucket and the oldest cached newcomer took
\* the vacancy, leaving one more newcomer waiting in the cache
C10_Witness ==
    \E i \in BucketIdx :
        /\ rt_call.op = "remove_node"
        /\ rt_call.ret = TRUE
        /\ get_bucket_index(node_id, rt_call.id) = i
        /\ Len(buckets[i]) = K
        /\ replacement[i] # <<>>

----------------------------------------------------------------------------
(***************************************************************************)
(* The chunk store: src/file/storage.py                                    *)
(*                                                                         *)
(* File content is a sequence of bytes.  A chunk is one byte long          *)
(* (chunk_size = 1), so the chunks of a file are its bytes in order.       *)
(* SHA-256 is modelled as an injective function of the content: the digest *)
(* of a content is a value that names exactly that content.                *)
(*                                                                         *)
(* The filesystem keeps files (inodes) apart from the paths that name      *)
(* them: open(path, 'wb') truncates the file the path names, or creates    *)
(* one; rename(a, b) makes b name the file a named; a file handle keeps    *)
(* writing to its file whatever the paths do.  Every await of the code is  *)
(* a point where another task may run, so each action below is the code    *)
(* between two awaits.                                                     *)
(***************************************************************************)
Bytes == 1 .. NumBytes
ZeroByte == 0
SHA256(content) == [digest_of |-> content]

ChunkBodies == { <<b>> : b \in Bytes }
ChunkHashes == { SHA256(c) : c \in ChunkBodies }
FileContents == UNION { [1 .. n -> Bytes] : n \in 0 .. MaxChunks }
InfoHashes == { SHA256(c) : c \in FileContents }

NoFile == 0
\* markers for "no such file", "no hash" and "no manifest"
NoContent == << -1 >>
NoHash == SHA256(NoContent)
NoManifest == [info_hash |-> NoHash, chunks |-> <<>>, size |-> 0]
PutTasks == 1 .. NumPuts
\* enough files for every path and every open handle
Inodes == 1 .. (2 * NumPuts + 2 * MaxChunks + NumBytes + 4)

\* a write of data at offset off: a gap before off reads as zero bytes
WriteAt(content, off, data) ==
    LET n == IF Len(content) > off + Len(data) THEN Len(content) ELSE off + Len(data)
    IN  [k \in 1 .. n |->
            IF k > off /\ k <= off + Len(data) THEN data[k - off]
            ELSE IF k <= Len(content) THEN content[k]
            ELSE ZeroByte]

\* the files some path or some open handle refers to
Referenced(chunks, temp, out, puts, r) ==
    ({ chunks[h] : h \in DOMAIN chunks } \cup { temp[h] : h \in DOMAIN temp }
       \cup { out } \cup { puts[t].fd : t \in DOMAIN puts } \cup { r.fd }) \ { NoFile }

\* a file nothing refers to is gone
Collect(inode, chunks, temp, out, puts, r) ==
    [n \in Inodes |->
        IF n \in Referenced(chunks, temp, out, puts, r) THEN inode[n] ELSE <<>>]

FreeInode == CHOOSE n \in Inodes :
                /\ n \notin Referenced(fs_chunks, fs_temp, fs_out, put, ra)
                /\ \A m \in Inodes :
                      m \notin Referenced(fs_chunks, fs_temp, fs_out, put, ra) => n <= m

\* ChunkStorage.has_chunk
has_chunk(h) == fs_chunks[h] # NoFile

\* the manifests reassemble_file and download_file are called with: a chunk
\* list, an info_hash and a size (FileManifest.from_dict accepts any values);
\* every chunk is one byte long, so a well-formed manifest has as many chunks
\* as its size
RECURSIVE ConcatBodies(_)
ConcatBodies(hs) ==
    IF hs = <<>> THEN <<>> ELSE Head(hs).digest_of \o ConcatBodies(Tail(hs))
ChunkLists == UNION { [1 .. n -> ChunkHashes] : n \in 0 .. MaxChunks }
Manifests ==
    { m \in [info_hash : InfoHashes, chunks : ChunkLists, size : 0 .. MaxChunks + 1] :
        /\ m.info_hash \in { SHA256(ConcatBodies(m.chunks)), SHA256(<<>>) }
        /\ m.size \in { Len(m.chunks), Len(m.chunks) + 1 } }

IdlePut == [pc |-> "idle", hash |-> NoHash, data |-> <<>>, fd |-> NoFile,
            ret |-> "none"]
IdleRa == [pc |-> "idle", manifest |-> NoManifest, i |-> 0, fd |-> NoFile,
           off |-> 0, ret |-> "none", before |-> NoContent]

\* the output path is either absent or holds an older file
OldContent == <<ZeroByte>>

InitStore ==
    /\ fs_chunks = [h \in ChunkHashes |-> NoFile]
    /\ fs_temp = [h \in InfoHashes |-> NoFile]
    /\ \/ /\ fs_out = NoFile
          /\ fs_inode = [n \in Inodes |-> <<>>]
       \/ /\ fs_out = 1
          /\ fs_inode = [n \in Inodes |-> IF n = 1 THEN OldContent ELSE <<>>]
    /\ put = [t \in PutTasks |-> IdlePut]
    /\ ra = IdleRa
    /\ RoutingParked /\ DownloadParked /\ TransferParked /\ DhtParked

\* store_chunk, lines 117-124: verify the hash, make the directory
store_chunk_call(t, h, d) ==
    /\ put[t].pc = "idle"
    /\ put[t].ret = "none"
    /\ IF SHA256(d) # h
       THEN put' = [put EXCEPT ![t] = [IdlePut EXCEPT !.ret = "false"]]
       ELSE put' = [put EXCEPT ![t] = [pc |-> "open", hash |-> h, data |-> d,
                                       fd |-> NoFile, ret |-> "none"]]
    /\ UNCHANGED <<fs_inode, fs_chunks, fs_temp, fs_out, ra, notStore>>

\* store_chunk, line 129: aiofiles.open(temp_path, 'wb')
store_chunk_open(t) ==
    /\ put[t].pc = "open"
    /\ LET h == put[t].hash
           n == IF fs_temp[h] = NoFile THEN FreeInode ELSE fs_temp[h]
       IN  /\ fs_temp' = [fs_temp EXCEPT ![h] = n]
           /\ fs_inode' = [fs_inode EXCEPT ![n] = <<>>]
           /\ put' = [put EXCEPT ![t].pc = "write", ![t].fd = n]
    /\ UNCHANGED <<fs_chunks, fs_out, ra, notStore>>

\* store_chunk, line 130: f.write(data), and the close that ends the with-block
store_chunk_write(t) ==
    /\ put[t].pc = "write"
    /\ LET n == put[t].fd
           puts == [put EXCEPT ![t].pc = "rename", ![t].fd = NoFile]
       IN  /\ put' = puts
           /\ fs_inode' = Collect([fs_inode EXCEPT ![n] = WriteAt(@, 0, put[t].data)],
                                  fs_chunks, fs_temp, fs_out, puts, ra)
    /\ UNCHANGED <<fs_chunks, fs_temp, fs_out, ra, notStore>>

\* store_chunk, lines 133-135: rename(temp_path, chunk_path); a missing
\* temp_path raises FileNotFoundError out of store_chunk
store_chunk_rename(t) ==
    /\ put[t].pc = "rename"
    /\ LET h == put[t].hash
       IN  IF fs_temp[h] = NoFile
           THEN /\ put' = [put EXCEPT ![t] = [IdlePut EXCEPT !.ret = "raised"]]
                /\ UNCHANGED <<fs_inode, fs_chunks, fs_temp>>
           ELSE LET puts == [put EXCEPT ![t] = [IdlePut EXCEPT !.ret = "true"]]
                    chunks == [fs_chunks EXCEPT ![h] = fs_temp[h]]
                    temp == [fs_temp EXCEPT ![h] = NoFile]
                IN  /\ put' = puts
                    /\ fs_chunks' = chunks
                    /\ fs_temp' = temp
                    /\ fs_inode' = Collect(fs_inode, chunks, temp, fs_out, puts, ra)
    /\ UNCHANGED <<fs_out, ra, notStore>>

\* reassemble_file, lines 309-311: every chunk of the manifest must exist
\* (has_chunk does not await, so the loop runs without interruption)
reassemble_call(m) ==
    /\ ra.pc = "idle"
    /\ ra.ret = "none"
    /\ LET before == IF fs_out = NoFile THEN NoContent ELSE fs_inode[fs_out]
       IN  IF \E k \in 1 .. Len(m.chunks) : ~has_chunk(m.chunks[k])
           THEN ra' = [IdleRa EXCEPT !.manifest = m, !.ret = "None",
                                     !.before = before]
           ELSE ra' = [IdleRa EXCEPT !.pc = "open", !.manifest = m,
                                     !.before = before]
    /\ UNCHANGED <<fs_inode, fs_chunks, fs_temp, fs_out, put, notStore>>

\* reassemble_file, line 316: aiofiles.open(temp_path, 'wb')
reassemble_open ==
    /\ ra.pc = "open"
    /\ LET h == ra.manifest.info_hash
           n == IF fs_temp[h] = NoFile THEN FreeInode ELSE fs_temp[h]
       IN  /\ fs_temp' = [fs_temp EXCEPT ![h] = n]
           /\ fs_inode' = [fs_inode EXCEPT ![n] = <<>>]
           /\ ra' = [ra EXCEPT !.pc = "copy", !.fd = n, !.i = 1, !.off = 0]
    /\ UNCHANGED <<fs_chunks, fs_out, put, notStore>>

\* reassemble_file, lines 317-323: one turn of the copy loop.  get_chunk
\* (lines 137-159) reads the chunk file, and removes it when its content does
\* not hash to its name; without the chunk the temp file is removed and the
\* call returns None (or raises, when temp_path is already gone).
reassemble_copy ==
    /\ ra.pc = "copy"
    /\ LET m == ra.manifest
           th == m.info_hash
       IN  IF ra.i > Len(m.chunks)
           THEN /\ ra' = [ra EXCEPT !.pc = "verify", !.fd = NoFile]
                /\ fs_inode' = Collect(fs_inode, fs_chunks, fs_temp, fs_out, put,
                                       [ra EXCEPT !.fd = NoFile])
                /\ UNCHANGED <<fs_chunks, fs_temp>>
           ELSE LET h == m.chunks[ra.i]
                    present == fs_chunks[h] # NoFile
                    content == IF present THEN fs_inode[fs_chunks[h]] ELSE <<>>
                IN  IF present /\ SHA256(content) = h
                    THEN /\ fs_inode' = [fs_inode EXCEPT
                                            ![ra.fd] = WriteAt(@, ra.off, content)]
                         /\ ra' = [ra EXCEPT !.i = @ + 1, !.off = @ + Len(content)]
                         /\ UNCHANGED <<fs_chunks, fs_temp>>
                    ELSE LET chunks == [fs_chunks EXCEPT ![h] = NoFile]
                             temp == [fs_temp EXCEPT ![th] = NoFile]
                             r == [IdleRa EXCEPT
                                     !.manifest = m, !.before = ra.before,
                                     !.ret = IF fs_temp[th] = NoFile
                                             THEN "raised" ELSE "None"]
                         IN  /\ ra' = r
                             /\ fs_chunks' = chunks
                             /\ fs_temp' = temp
                             /\ fs_inode' = Collect(fs_inode, chunks, temp, fs_out,
                                                    put, r)
    /\ UNCHANGED <<fs_out, put, notStore>>

\* reassemble_file, lines 326-336: read temp_path back and compare its digest
\* with manifest.info_hash; on a mismatch remove temp_path and return None
reassemble_verify ==
    /\ ra.pc = "verify"
    /\ LET m == ra.manifest
           th == m.info_hash
       IN  IF fs_temp[th] = NoFile
           THEN /\ ra' = [ra EXCEPT !.pc = "idle", !.ret = "raised"]
                /\ UNCHANGED <<fs_inode, fs_temp>>
           ELSE IF SHA256(fs_inode[fs_temp[th]]) # m.info_hash
           THEN LET temp == [fs_temp EXCEPT ![th] = NoFile]
                    r == [ra EXCEPT !.pc = "idle", !.ret = "None"]
                IN  /\ ra' = r
                    /\ fs_temp' = temp
                    /\ fs_inode' = Collect(fs_inode, fs_chunks, temp, fs_out, put, r)
           ELSE /\ ra' = [ra EXCEPT !.pc = "rename"]
                /\ UNCHANGED <<fs_inode, fs_temp>>
    /\ UNCHANGED <<fs_chunks, fs_out, put, notStore>>

\* reassemble_file, lines 339-342: rename(temp_path, output_path)
reassemble_rename ==
    /\ ra.pc = "rename"
    /\ LET th == ra.manifest.info_hash
       IN  IF fs_temp[th] = NoFile
           THEN /\ ra' = [ra EXCEPT !.pc = "idle", !.ret = "raised"]
                /\ UNCHANGED <<fs_inode, fs_temp, fs_out>>
           ELSE LET temp == [fs_temp EXCEPT ![th] = NoFile]
                    r == [ra EXCEPT !.pc = "idle", !.ret = "path"]
                IN  /\ ra' = r
                    /\ fs_out' = fs_temp[th]
                    /\ fs_temp' = temp
                    /\ fs_inode' = Collect(fs_inode, fs_chunks, temp, fs_temp[th],
                                           put, r)
    /\ UNCHANGED <<fs_chunks, put, notStore>>

NextStore ==
    \/ \E t \in PutTasks, h \in ChunkHashes, d \in ChunkBodies :
          store_chunk_call(t, h, d)
    \/ \E t \in PutTasks : store_chunk_open(t)
    \/ \E t \in PutTasks : store_chunk_write(t)
    \/ \E t \in PutTasks : store_chunk_rename(t)
    \/ \E m \in Manifests : reassemble_call(m)
    \/ reassemble_open
    \/ reassemble_copy
    \/ reassemble_verify
    \/ reassemble_rename

SpecStore == InitStore /\ [][NextStore]_vars

----------------------------------------------------------------------------
(***************************************************************************)
(* Claims about the chunk store                                            *)
(***************************************************************************)

\* what a reader of a path finds
ChunkFile(h) == IF fs_chunks[h] = NoFile THEN NoContent ELSE fs_inode[fs_chunks[h]]
OutFile == IF fs_out = NoFile THEN NoContent ELSE fs_inode[fs_out]

\* C3: every chunk file visible under its final path chunks/<aa>/<h> has
\* content whose SHA-256 is h, whatever the interleaving of store_chunk
\* calls, two calls for the same hash included; no reader finds an empty or
\* partial chunk file.
C3_VisibleChunksVerified ==
    \A h \in ChunkHashes : ChunkFile(h) # NoContent => SHA256(ChunkFile(h)) = h

\* C4: once reassemble_file has been called, the output path holds either
\* what it held before the call or the complete file whose SHA-256 is the
\* manifest's info_hash; after a successful return it holds the complete
\* file, after a failed one what it held before.
C4_OutputAllOrNothing ==
    ra.manifest = NoManifest \/
    /\ OutFile = ra.before \/ SHA256(OutFile) = ra.manifest.info_hash
    /\ ra.ret = "path" => SHA256(OutFile) = ra.manifest.info_hash
    /\ ra.ret \in {"None", "raised"} => OutFile = ra.before

----------------------------------------------------------------------------
(***************************************************************************)
(* File download: FileDownloader.download_file and the chunk requests of   *)
(* ChunkDownloader.download_chunk (transfer/downloader.py)                 *)
(*                                                                         *)
(* download_file runs one download_from_peer coroutine per peer and, for   *)
(* the chunks that failed, one retry_chunk coroutine per failed chunk.     *)
(* Each coroutine is a task; a task stores what it fetched with the        *)
(* store_chunk steps of the chunk store above, and download_file ends with *)
(* the reassemble_file steps.  What a peer answers is the environment's    *)
(* choice.                                                                 *)
(***************************************************************************)
Peers == 1 .. NumPeers
DlTasks == 1 .. (NumPeers + MaxChunks)
PeerTasks == 1 .. NumPeers
RetryTasks == (NumPeers + 1) .. (NumPeers + MaxChunks)

Range(f) == { f[x] : x \in DOMAIN f }

\* the peer lists download_file is called with, and the orders random.shuffle
\* can leave them in
PeerLists ==
    { ps \in UNION { [1 .. n -> Peers] : n \in 0 .. NumPeers } :
        \A a, b \in DOMAIN ps : a # b => ps[a] # ps[b] }
Shuffles(ps) == { qs \in PeerLists : Len(qs) = Len(ps) /\ Range(qs) = Range(ps) }

\* ChunkStorage.get_missing_chunks: the hashes of the manifest, in order,
\* that have no chunk file
RECURSIVE MissingOf(_, _)
MissingOf(hs, chunks) ==
    IF hs = <<>> THEN <<>>
    ELSE (IF chunks[Head(hs)] = NoFile THEN <<Head(hs)>> ELSE <<>>)
            \o MissingOf(Tail(hs), chunks)
get_missing_chunks(m) == MissingOf(m.chunks, fs_chunks)

\* FileDownloader._assign_chunks_round_robin: the chunks given to the peer at
\* position j of the peer list
RECURSIVE AssignedFrom(_, _, _, _)
AssignedFrom(chunks, n, j, i) ==
    IF i > Len(chunks) THEN <<>>
    ELSE (IF ((i - 1) % n) + 1 = j THEN <<chunks[i]>> ELSE <<>>)
            \o AssignedFrom(chunks, n, j, i + 1)
\* an assignment that starts with the second peer of the list
assign_chunks_shifted(chunks, peers, j) ==
    AssignedFrom(chunks, Len(peers), (j % Len(peers)) + 1, 1)
assign_chunks_round_robin(chunks, peers, j) == AssignedFrom(chunks, Len(peers), j, 1)

\* a download_chunk that takes any body
hash_unchecked(chunk_hash, data) == data # <<>>

\* download_chunk, lines 236-238: the received body is checked against the
\* requested hash
hash_matches(chunk_hash, data) == SHA256(data) = chunk_hash

\* data is the body the task's last request ended with (NoContent when it
\* ended without one), kept until the task's next request or its end
IdleTask == [kind |-> "none", pc |-> "idle", chunks |-> <<>>, i |-> 0, j |-> 0,
             data |-> NoContent, result |-> "none"]

\* what a peer's end of the connection produces for one request
Replies ==
    { [kind |-> "data", data |-> d] : d \in ChunkBodies \cup { <<>> } }
      \cup { [kind |-> k, data |-> NoContent] : k \in {"not_found", "timeout"} }

CurrentChunk(t) == task[t].chunks[task[t].i]
CurrentPeer(t) == dl.peers[task[t].j]

InitDownload ==
    /\ \E m \in Manifests, ps \in PeerLists, have \in SUBSET Bytes, old \in BOOLEAN :
          /\ dl = [pc |-> "start", manifest |-> m, peers |-> ps, failed |-> <<>>,
                   ret |-> "none", phase |-> "none", total_chunks |-> 0,
                   downloaded_chunks |-> 0, failed_chunks |-> 0,
                   chunk_states |-> <<>>]
          /\ fs_chunks = [h \in ChunkHashes |->
                             IF h.digest_of[1] \in have THEN h.digest_of[1] ELSE NoFile]
          /\ fs_out = IF old THEN NumBytes + 1 ELSE NoFile
          /\ fs_inode = [n \in Inodes |->
                             IF n \in have THEN <<n>>
                             ELSE IF old /\ n = NumBytes + 1 THEN OldContent
                             ELSE <<>>]
    /\ fs_temp = [h \in InfoHashes |-> NoFile]
    /\ put = [t \in DlTasks |-> IdlePut]
    /\ ra = IdleRa
    /\ task = [t \in DlTasks |-> IdleTask]
    /\ pool = [p \in Peers |-> "absent"]
    /\ RoutingParked /\ TransferParked /\ DhtParked

\* download_file, lines 329-402: no peers; nothing missing; otherwise shuffle,
\* assign, set up the progress record and start one task per peer that has
\* chunks assigned
download_file ==
    /\ dl.pc = "start"
    /\ LET missing == get_missing_chunks(dl.manifest)
       IN  IF dl.peers = <<>>
           THEN /\ dl' = [dl EXCEPT !.pc = "done", !.ret = "None"]
                /\ UNCHANGED task
           ELSE IF missing = <<>>
           THEN /\ dl' = [dl EXCEPT !.pc = "merging"]
                /\ UNCHANGED task
           ELSE \E peers \in Shuffles(dl.peers) :
                /\ dl' = [dl EXCEPT
                            !.pc = "first", !.peers = peers, !.phase = "downloading",
                            !.total_chunks = Len(missing),
                            !.chunk_states = [h \in Range(missing) |-> "pending"]]
                /\ task' = [t \in DlTasks |->
                              IF t \in PeerTasks /\ t <= Len(peers)
                                 /\ assign_chunks_round_robin(missing, peers, t) # <<>>
                              THEN [IdleTask EXCEPT
                                      !.kind = "peer", !.pc = "next", !.i = 1, !.j = t,
                                      !.chunks = assign_chunks_round_robin(missing, peers, t)]
                              ELSE IdleTask]
    /\ UNCHANGED <<pool, fsVars, notDownload>>

\* a retry_chunk that gives up after its first peer
TaskAfterFailure_one_peer(t) ==
    IF task[t].kind = "peer"
    THEN [task[t] EXCEPT !.i = @ + 1,
                         !.pc = IF task[t].i + 1 > Len(task[t].chunks)
                                THEN "done" ELSE "next"]
    ELSE [task[t] EXCEPT !.j = @ + 1, !.pc = "done", !.result = "false"]

\* the bookkeeping after a fetch that produced no chunk.
\* download_from_peer, lines 441-449: mark the chunk failed, queue it for the
\* retry pass, go on with the next assigned chunk.
\* retry_chunk, lines 466 and 495-499: go on with the next peer; when no peer
\* is left mark the chunk failed and return False.
TaskAfterFailure(t) ==
    IF task[t].kind = "peer"
    THEN [task[t] EXCEPT !.i = @ + 1,
                         !.pc = IF task[t].i + 1 > Len(task[t].chunks)
                                THEN "done" ELSE "next"]
    ELSE IF task[t].j + 1 > Len(dl.peers)
    THEN [task[t] EXCEPT !.j = @ + 1, !.pc = "done", !.result = "false"]
    ELSE [task[t] EXCEPT !.j = @ + 1, !.pc = "next"]

DlAfterFailure(t) ==
    IF task[t].kind = "peer"
    THEN [dl EXCEPT !.chunk_states[CurrentChunk(t)] = "failed",
                    !.failed = Append(@, CurrentChunk(t))]
    ELSE IF task[t].j + 1 > Len(dl.peers)
    THEN [dl EXCEPT !.chunk_states[CurrentChunk(t)] = "failed"]
    ELSE dl

\* download_from_peer, lines 409-419, and retry_chunk, lines 466-478, up to
\* the request being written (download_chunk, lines 223-229): mark the chunk
\* as downloading, take the pooled connection or open one, wait for the
\* connection's lock and send the request.  A peer that cannot be reached
\* (connected = FALSE) makes download_chunk return None.
download_chunk_begin(t, connected) ==
    /\ task[t].pc = "next"
    /\ LET p == CurrentPeer(t)
           h == CurrentChunk(t)
       IN  /\ pool[p] # "busy"
           /\ IF pool[p] = "absent" /\ ~connected
              THEN /\ task' = [task EXCEPT
                                ![t] = [TaskAfterFailure(t) EXCEPT !.data = NoContent]]
                   /\ dl' = DlAfterFailure(t)
                   /\ UNCHANGED pool
              ELSE /\ task' = [task EXCEPT ![t].pc = "waiting", ![t].data = NoContent]
                   /\ dl' = [dl EXCEPT !.chunk_states[h] = "downloading"]
                   /\ pool' = [pool EXCEPT ![p] = "busy"]
    /\ UNCHANGED <<fsVars, notDownload>>

\* download_chunk, lines 228-252: the request ends with a body, with a
\* not-found reply or with the timeout.  A body that does not hash to the
\* requested hash and a timeout close the connection.
download_chunk_end(t, reply) ==
    /\ task[t].pc = "waiting"
    /\ LET p == CurrentPeer(t)
           h == CurrentChunk(t)
       IN  IF reply.kind = "data" /\ hash_matches(h, reply.data)
           THEN /\ task' = [task EXCEPT ![t].pc = "got", ![t].data = reply.data]
                /\ pool' = [pool EXCEPT ![p] = "open"]
                /\ UNCHANGED dl
           ELSE /\ task' = [task EXCEPT
                             ![t] = [TaskAfterFailure(t) EXCEPT
                                       !.data = IF TaskAfterFailure(t).pc = "done"
                                                THEN NoContent ELSE reply.data]]
                /\ dl' = DlAfterFailure(t)
                /\ pool' = [pool EXCEPT ![p] = IF reply.kind = "not_found"
                                                THEN "open" ELSE "absent"]
    /\ UNCHANGED <<fsVars, notDownload>>

\* download_from_peer, line 423, and retry_chunk, line 480: store_chunk is
\* called with the fetched body
store_fetched(t) ==
    /\ task[t].pc = "got"
    /\ store_chunk_call(t, CurrentChunk(t), task[t].data)

\* download_from_peer, lines 424-440, and retry_chunk, lines 481-493: after
\* store_chunk returned.  True counts the chunk and marks it complete; False
\* leaves it uncounted; an exception of store_chunk leaves the task and, through
\* gather, download_file.
after_store(t) ==
    /\ task[t].pc = "got"
    /\ put[t].pc = "idle"
    /\ put[t].ret # "none"
    /\ put' = [put EXCEPT ![t] = IdlePut]
    /\ LET h == CurrentChunk(t)
       IN  CASE put[t].ret = "true" ->
                  /\ dl' = [dl EXCEPT !.downloaded_chunks = @ + 1,
                                      !.chunk_states[h] = "complete"]
                  /\ task' = [task EXCEPT ![t] =
                                IF task[t].kind = "peer"
                                THEN [@ EXCEPT !.i = @ + 1, !.data = NoContent,
                                               !.pc = IF task[t].i + 1 > Len(task[t].chunks)
                                                      THEN "done" ELSE "next"]
                                ELSE [@ EXCEPT !.pc = "done", !.data = NoContent,
                                               !.result = "true"]]
             [] put[t].ret = "false" ->
                  /\ task' = [task EXCEPT ![t] =
                                IF task[t].kind = "peer"
                                THEN [@ EXCEPT !.i = @ + 1, !.data = NoContent,
                                               !.pc = IF task[t].i + 1 > Len(task[t].chunks)
                                                      THEN "done" ELSE "next"]
                                ELSE TaskAfterFailure(t)]
                  /\ dl' = IF task[t].kind = "peer" THEN dl ELSE DlAfterFailure(t)
             [] put[t].ret = "raised" ->
                  /\ task' = [task EXCEPT ![t].pc = "raised", ![t].data = NoContent]
                  /\ dl' = IF dl.pc \in {"first", "retry"}
                           THEN [dl EXCEPT !.pc = "done", !.ret = "raised"]
                           ELSE dl
    /\ UNCHANGED <<fs_inode, fs_chunks, fs_temp, fs_out, ra, pool, notDownload>>

\* download_file, lines 458-462 and 501: every download_from_peer task has
\* ended; one retry_chunk task is started for each entry of failed_chunks
gather_first_pass ==
    /\ dl.pc = "first"
    /\ \A t \in PeerTasks : task[t].pc \in {"idle", "done"}
    /\ IF dl.failed = <<>>
       THEN /\ dl' = [dl EXCEPT !.pc = "close"]
            /\ UNCHANGED task
       ELSE /\ dl' = [dl EXCEPT !.pc = "retry"]
            /\ task' = [t \in DlTasks |->
                          IF t \in RetryTasks /\ t - NumPeers <= Len(dl.failed)
                          THEN [IdleTask EXCEPT
                                  !.kind = "retry", !.pc = "next", !.i = 1, !.j = 1,
                                  !.chunks = <<dl.failed[t - NumPeers]>>]
                          ELSE task[t]]
    /\ UNCHANGED <<pool, fsVars, notDownload>>

\* download_file, lines 502-505: every retry_chunk task has ended
gather_retry_pass ==
    /\ dl.pc = "retry"
    /\ \A t \in RetryTasks : task[t].pc \in {"idle", "done"}
    /\ dl' = [dl EXCEPT
                !.pc = "close",
                !.failed_chunks =
                    Cardinality({ t \in RetryTasks : task[t].result = "false" })]
    /\ UNCHANGED <<task, pool, fsVars, notDownload>>

\* download_file, lines 507-523: close every pooled connection, then look
\* for chunks still missing
close_all_and_check ==
    /\ dl.pc = "close"
    /\ pool' = [p \in Peers |-> "absent"]
    /\ IF get_missing_chunks(dl.manifest) # <<>>
       THEN dl' = [dl EXCEPT !.pc = "done", !.ret = "None", !.phase = "failed"]
       ELSE dl' = [dl EXCEPT !.pc = "merging", !.phase = "merging"]
    /\ UNCHANGED <<task, fsVars, notDownload>>

\* download_file, lines 342 and 525: reassemble_file is called
reassemble_downloaded ==
    /\ dl.pc = "merging"
    /\ reassemble_call(dl.manifest)

\* a download_file that reports complete whatever reassemble_file returned
download_return_unconditional ==
    /\ dl.pc = "merging"
    /\ ra.pc = "idle"
    /\ ra.ret # "none"
    /\ dl' = [dl EXCEPT
                !.pc = "done", !.ret = ra.ret,
                !.phase = IF dl.phase = "none" THEN "none" ELSE "complete"]
    /\ UNCHANGED <<task, pool, fsVars, notDownload>>

\* download_file, lines 342 and 527-539: what reassemble_file returned is
\* returned; with a progress record the phase becomes complete or failed
download_return ==
    /\ dl.pc = "merging"
    /\ ra.pc = "idle"
    /\ ra.ret # "none"
    /\ dl' = [dl EXCEPT
                !.pc = "done", !.ret = ra.ret,
                !.phase = IF dl.phase = "none" THEN "none"
                          ELSE IF ra.ret = "path" THEN "complete"
                          ELSE IF ra.ret = "None" THEN "failed"
                          ELSE dl.phase]
    /\ UNCHANGED <<task, pool, fsVars, notDownload>>

NextDownload ==
    \/ download_file
    \/ \E t \in DlTasks, connected \in BOOLEAN : download_chunk_begin(t, connected)
    \/ \E t \in DlTasks, reply \in Replies : download_chunk_end(t, reply)
    \/ \E t \in DlTasks : store_fetched(t)
    \/ \E t \in DlTasks : store_chunk_open(t)
    \/ \E t \in DlTasks : store_chunk_write(t)
    \/ \E t \in DlTasks : store_chunk_rename(t)
    \/ \E t \in DlTasks : after_store(t)
    \/ gather_first_pass
    \/ gather_retry_pass
    \/ close_all_and_check
    \/ reassemble_downloaded
    \/ reassemble_open
    \/ reassemble_copy
    \/ reassemble_verify
    \/ reassemble_rename
    \/ download_return

SpecDownload == InitDownload /\ [][NextDownload]_vars

----------------------------------------------------------------------------
(***************************************************************************)
(* Claims about the download                                               *)
(***************************************************************************)

\* C1: whenever download_file has returned a path for manifest M, the file at
\* the output path has SHA-256 equal to M.info_hash and a length equal to
\* M.size.
C1_CompleteFileMatchesManifest ==
    dl.ret = "path" =>
        /\ SHA256(OutFile) = dl.manifest.info_hash
        /\ Len(OutFile) = dl.manifest.size

\* the chunk requests that have been written and not yet answered
InFlight == { t \in DlTasks : task[t].pc = "waiting" }

\* C7: at any time the number of chunk requests in flight, over all peers and
\* over the first pass and the retry pass, is at most max_concurrent.
C7_InFlightBounded == Cardinality(InFlight) <= max_concurrent

ManifestChunks == { dl.manifest.chunks[k] : k \in 1 .. Len(dl.manifest.chunks) }

\* a step in which the request of task t ends with a body whose SHA-256 is not
\* the requested hash
MismatchStep(t) ==
    /\ task[t].pc = "waiting"
    /\ \E reply \in Replies :
          /\ reply.kind = "data"
          /\ SHA256(reply.data) # CurrentChunk(t)
          /\ download_chunk_end(t, reply)

\* C2: a body received from a peer whose SHA-256 differs from the requested
\* chunk hash is never written to the chunk store: the step that receives it
\* leaves the store as it is and starts no store_chunk, closes the connection
\* to that peer, and hands the chunk to the retry pass (first pass) or to the
\* next peer (retry pass); a chunk file only appears through a store_chunk
\* whose body hashes to the chunk's name; and a download that ends while a
\* chunk of the manifest is not in the store ends in failure.
C2_MismatchedBodyRejected ==
    [][ /\ \A t \in DlTasks :
              MismatchStep(t) =>
                  /\ UNCHANGED <<fs_inode, fs_chunks, fs_temp, fs_out, put>>
                  /\ pool'[CurrentPeer(t)] = "absent"
                  /\ IF task[t].kind = "peer"
                     THEN /\ dl'.failed = Append(dl.failed, CurrentChunk(t))
                          /\ dl'.pc = "first"
                     ELSE /\ task'[t].j = task[t].j + 1
                          /\ task'[t].pc = "next" \/ task'[t].j > Len(dl.peers)
        /\ \A h \in ChunkHashes :
              (fs_chunks[h] = NoFile /\ fs_chunks'[h] # NoFile) =>
                  \E t \in DlTasks :
                      /\ put[t].pc = "rename" /\ put[t].hash = h
                      /\ SHA256(put[t].data) = h
                      /\ task[t].data = put[t].data
        /\ (dl'.pc = "done" /\ \E h \in ManifestChunks : fs_chunks'[h] = NoFile)
              => dl'.ret \in {"None", "raised"}
      ]_vars

\* a chunk failed in the first pass; in the retry pass the first peer answered
\* with a body of another hash, nothing was stored, that connection is gone and
\* the chunk is about to be asked of the second peer
C2_Witness ==
    \E t \in RetryTasks :
        /\ task[t].kind = "retry" /\ task[t].pc = "next" /\ task[t].j = 2
        /\ task[t].data \in ChunkBodies
        /\ SHA256(task[t].data) # CurrentChunk(t)
        /\ fs_chunks[CurrentChunk(t)] = NoFile
        /\ pool[dl.peers[1]] = "absent"

\* the steps of a retry_chunk task: the peers are tried in the order of the
\* list, one step further only after a failure; the task ends with True at the
\* first stored chunk and with False only after the last peer
RetryInOrder ==
    \A t \in RetryTasks :
        task[t].kind = "retry" =>
            /\ task'[t].chunks = task[t].chunks
            /\ task'[t].j \in { task[t].j, task[t].j + 1 }
            /\ task'[t].j = task[t].j + 1 =>
                  /\ task[t].pc \in {"next", "waiting", "got"}
                  /\ task'[t].result # "true"
            /\ (task[t].pc = "next" /\ task'[t].pc = "waiting") =>
                  pool'[dl.peers[task[t].j]] = "busy"
            /\ (task[t].result = "none" /\ task'[t].result = "true") =>
                  /\ task'[t].pc = "done" /\ task'[t].j = task[t].j
                  /\ fs_chunks[CurrentChunk(t)] # NoFile
            /\ (task[t].result = "none" /\ task'[t].result = "false") =>
                  task'[t].j = Len(dl.peers) + 1
            /\ task[t].pc = "done" => task'[t] = task[t]

\* every chunk that failed in the first pass gets its retry_chunk task, and
\* a failed fetch does not end download_file
FailuresRetried ==
    /\ (dl.pc = "first" /\ dl'.pc = "retry") =>
          \A k \in 1 .. Len(dl.failed) :
              /\ task'[NumPeers + k].kind = "retry"
              /\ task'[NumPeers + k].chunks = << dl.failed[k] >>
              /\ task'[NumPeers + k].pc = "next" /\ task'[NumPeers + k].j = 1
    /\ (dl.pc = "first" /\ dl'.pc = "close") => dl.failed = <<>>
    /\ dl'.failed # dl.failed => dl'.ret = dl.ret /\ dl'.pc = dl.pc

----------------------------------------------------------------------------
(***************************************************************************)
(* One ChunkDownloader and its pooled connections, request by request:     *)
(* ChunkDownloader.get_connection / close_connection / download_chunk      *)
(* (transfer/downloader.py) and TransferProtocol.request_chunk             *)
(* (transfer/protocol.py).                                                 *)
(*                                                                         *)
(* Each caller runs one download_chunk for a chunk of its own; a reply      *)
(* carries the name of the caller whose request the peer answered.  An     *)
(* asyncio.Lock that is free is taken without a suspension, so a step runs *)
(* on until the code has to wait: for the pool lock, for the connection's  *)
(* lock, for the peer, or for the timeout.                                 *)
(***************************************************************************)
Callers == 1 .. NumCallers
NoCaller == 0
NoConn == 0

IdleCall == [pc |-> "start", peer |-> 1, conn |-> NoConn, resp |-> NoCaller,
             ret |-> "none"]
NewConn(p) == [peer |-> p, closed |-> FALSE, lock |-> NoCaller,
               sent |-> <<>>, recv |-> <<>>]

InitTransfer ==
    /\ call \in [Callers -> { [IdleCall EXCEPT !.peer = p] : p \in Peers }]
    /\ conns = <<>>
    /\ pooled = [p \in Peers |-> NoConn]
    /\ pool_lock = NoCaller
    /\ RoutingParked /\ StoreParked /\ DownloadParked /\ DhtParked

\* close_connection, lines 202-205, once the pool lock is held: close the
\* connection pooled for the peer, whichever it is, and forget it
ClosedConns(p) ==
    IF pooled[p] = NoConn THEN conns
    ELSE [conns EXCEPT ![pooled[p]].closed = TRUE]

\* download_chunk, lines 240, 247 and 251: await close_connection, then
\* return None.  With the pool lock free this runs without a suspension;
\* otherwise the caller waits for the lock.  cs is the connection table as the
\* caller's step leaves it, resp what request_chunk handed to the caller.
CloseOrWait(t, cs, resp) ==
    LET p == call[t].peer
    IN  IF pool_lock = NoCaller
        THEN /\ conns' = (IF pooled[p] = NoConn THEN cs
                          ELSE [cs EXCEPT ![pooled[p]].closed = TRUE])
             /\ pooled' = [pooled EXCEPT ![p] = NoConn]
             /\ call' = [call EXCEPT ![t].pc = "done", ![t].ret = "None",
                                     ![t].resp = resp]
        ELSE /\ conns' = cs
             /\ call' = [call EXCEPT ![t].pc = "closing", ![t].resp = resp]
             /\ UNCHANGED pooled

\* get_connection, lines 182-192: with the pool lock, return the pooled
\* connection if it is open; otherwise start connecting, keeping the lock
get_connection(t) ==
    /\ call[t].pc = "start"
    /\ pool_lock = NoCaller
    /\ LET p == call[t].peer
       IN  IF pooled[p] # NoConn /\ ~conns[pooled[p]].closed
           THEN /\ call' = [call EXCEPT ![t].pc = "request", ![t].conn = pooled[p]]
                /\ UNCHANGED <<pool_lock, pooled>>
           ELSE /\ call' = [call EXCEPT ![t].pc = "connecting"]
                /\ pool_lock' = t
                /\ pooled' = [pooled EXCEPT ![p] = NoConn]
    /\ UNCHANGED <<conns, notTransfer>>

\* get_connection, lines 192-196, and download_chunk, lines 224-225:
\* connect_to_peer returns a connection, which is pooled, or None
connect_to_peer(t, ok) ==
    /\ call[t].pc = "connecting"
    /\ pool_lock' = NoCaller
    /\ IF ok
       THEN /\ conns' = Append(conns, NewConn(call[t].peer))
            /\ pooled' = [pooled EXCEPT ![call[t].peer] = Len(conns) + 1]
            /\ call' = [call EXCEPT ![t].pc = "request", ![t].conn = Len(conns) + 1]
       ELSE /\ call' = [call EXCEPT ![t].pc = "done", ![t].ret = "None"]
            /\ UNCHANGED <<conns, pooled>>
    /\ UNCHANGED notTransfer

\* request_chunk, lines 194-201: take the connection's lock and write the
\* request.  On a connection that has been closed the write fails and
\* download_chunk's handler closes the connection.
request_chunk_send(t) ==
    /\ call[t].pc = "request"
    /\ LET c == call[t].conn
       IN  /\ conns[c].lock = NoCaller
           /\ IF conns[c].closed
              THEN /\ CloseOrWait(t, conns, NoCaller)
                   /\ UNCHANGED pool_lock
              ELSE /\ conns' = [conns EXCEPT ![c].lock = t,
                                             ![c].sent = Append(@, t)]
                   /\ call' = [call EXCEPT ![t].pc = "reading"]
                   /\ UNCHANGED <<pool_lock, pooled>>
    /\ UNCHANGED notTransfer

\* the peer answers the oldest request it has not answered
server_reply(c) ==
    /\ c \in DOMAIN conns
    /\ ~conns[c].closed
    /\ conns[c].sent # <<>>
    /\ conns' = [conns EXCEPT ![c].sent = Tail(@),
                              ![c].recv = Append(@, Head(conns[c].sent))]
    /\ UNCHANGED <<call, pooled, pool_lock, notTransfer>>

\* request_chunk, lines 203-210, and download_chunk, lines 233-243: the next
\* message on the connection is the response; the lock is released; a body for
\* another chunk fails the hash check and the connection is closed
request_chunk_receive(t) ==
    /\ call[t].pc = "reading"
    /\ LET c == call[t].conn
       IN  /\ conns[c].recv # <<>>
           /\ LET reply == Head(conns[c].recv)
                  cs == [conns EXCEPT ![c].recv = Tail(@), ![c].lock = NoCaller]
              IN  IF reply = t
                  THEN /\ conns' = cs
                       /\ call' = [call EXCEPT ![t].pc = "done", ![t].resp = reply,
                                               ![t].ret = "data"]
                       /\ UNCHANGED pooled
                  ELSE CloseOrWait(t, cs, reply)
    /\ UNCHANGED <<pool_lock, notTransfer>>

\* request_chunk, lines 203-205: the connection was closed under the reader;
\* from_reader returns None and so does download_chunk
request_chunk_eof(t) ==
    /\ call[t].pc = "reading"
    /\ LET c == call[t].conn
       IN  /\ conns[c].closed
           /\ conns[c].recv = <<>>
           /\ conns' = [conns EXCEPT ![c].lock = NoCaller]
           /\ call' = [call EXCEPT ![t].pc = "done", ![t].ret = "None"]
    /\ UNCHANGED <<pooled, pool_lock, notTransfer>>

\* download_chunk, lines 228-231 and 245-248: no response has arrived and
\* wait_for gives up; the cancelled request_chunk releases the connection's
\* lock on its way out, and the handler closes the connection
request_chunk_timeout(t) ==
    /\ call[t].pc = "reading"
    /\ LET c == call[t].conn
       IN  /\ conns[c].recv = <<>>
           /\ CloseOrWait(t, [conns EXCEPT ![c].lock = NoCaller], NoCaller)
    /\ UNCHANGED <<pool_lock, notTransfer>>

\* close_connection, lines 198-205, for a caller that had to wait for the
\* pool lock
close_connection(t) ==
    /\ call[t].pc = "closing"
    /\ pool_lock = NoCaller
    /\ conns' = ClosedConns(call[t].peer)
    /\ pooled' = [pooled EXCEPT ![call[t].peer] = NoConn]
    /\ call' = [call EXCEPT ![t].pc = "done", ![t].ret = "None"]
    /\ UNCHANGED <<pool_lock, notTransfer>>

NextTransfer ==
    \/ \E t \in Callers : get_connection(t)
    \/ \E t \in Callers, ok \in BOOLEAN : connect_to_peer(t, ok)
    \/ \E t \in Callers : request_chunk_send(t)
    \/ \E c \in 1 .. NumCallers : server_reply(c)
    \/ \E t \in Callers : request_chunk_receive(t)
    \/ \E t \in Callers : request_chunk_eof(t)
    \/ \E t \in Callers : request_chunk_timeout(t)
    \/ \E t \in Callers : close_connection(t)

SpecTransfer == InitTransfer /\ [][NextTransfer]_vars

\* C6: on one pooled connection requests are strictly serialised: at most one
\* request is written and not yet paired with its response, and a response
\* handed to a caller is the peer's reply to that caller's own request, also
\* after an earlier request on the connection timed out.
C6_RequestsSerialized ==
    /\ \A c \in DOMAIN conns : Len(conns[c].sent) + Len(conns[c].recv) <= 1
    /\ \A t \in Callers : call[t].resp # NoCaller => call[t].resp = t

----------------------------------------------------------------------------
(***************************************************************************)
(* The DHT node and its routing table: src/dht/kademlia.py                 *)
(* A request to a contact that is not alive ends with send_request         *)
(* returning None after its timeout (backend/src/dht/protocol.py:272-276); *)
(* it raises only when the node has no transport, so a running node never  *)
(* takes the remove_node branch of the lookup (kademlia.py:477-479).       *)
(***************************************************************************)
\* the nodes that send this node requests and that its lookups learn of
Contacts == { x \in Network : x < NumContacts }

InitObserve ==
    /\ node_id = Pow2(IdBits) - 1
    /\ buckets = [i \in BucketIdx |-> <<>>]
    /\ replacement = [i \in BucketIdx |-> <<>>]
    /\ rt_call = [op |-> "init", id |-> NoNode, ret |-> NoNode]
    /\ alive = Contacts
    /\ StoreParked /\ DownloadParked /\ TransferParked /\ LookupParked
    /\ ShareParked /\ DataParked /\ ProtocolParked
    /\ LifecycleParked
    /\ ReadersParked
    /\ FrameParked
    /\ ManifestsParked

\* KademliaNode._handle_message: the sender of a request is offered to the
\* routing table, the contact add_node returns is dropped, and the request is
\* answered by its handler
handle_message(x) ==
    /\ x \in alive
    /\ add_node(x)

\* KademliaNode.ping: a PONG offers the contact to the routing table
ping(x) ==
    IF x \in alive
    THEN add_node(x)
    ELSE UNCHANGED vars

\* KademliaNode._send_find_node / _send_find_value: a response marks the
\* queried contact as seen, no response changes nothing
send_find_node(x) ==
    IF x \in alive
    THEN mark_node_seen(x)
    ELSE UNCHANGED vars

\* _iterative_lookup: a contact listed in a response is offered to the routing
\* table, whether it is alive or not
lookup_learns(y) == add_node(y)

\* a contact leaves the network and stops answering
contact_dies(x) ==
    /\ x \in alive
    /\ Cardinality(Contacts \ alive) < NumDead
    /\ alive' = alive \ {x}
    /\ UNCHANGED <<rtVars, fsVars, dlVars, tpVars, lkVars, shVars, kdVars, pdVars,
                   lcVars, rdVars, rxVars, mfVars>>

NextObserve ==
    \/ \E x \in Contacts : handle_message(x)
    \/ \E x \in Contacts : ping(x)
    \/ \E x \in Contacts : send_find_node(x)
    \/ \E y \in Contacts : lookup_learns(y)
    \/ \E x \in Contacts : contact_dies(x)

\* every request that arrives is handled and every lookup goes on: the event
\* loop runs each ready handler; contacts need not die
SpecObserve ==
    /\ InitObserve
    /\ [][NextObserve]_vars
    /\ WF_vars(\E x \in Contacts : handle_message(x))
    /\ WF_vars(\E x \in Contacts : send_find_node(x))
    /\ WF_vars(\E y \in Contacts : lookup_learns(y))

\* C11: when a new contact is observed that falls in a full bucket whose
\* oldest contact no longer responds, the oldest contact is eventually removed
\* from the bucket (it is probed, found dead and replaced from the cache).
C11_DeadOldestReplaced ==
    \A o \in Contacts :
        ( /\ o \notin alive
          /\ rt_call.op = "add_node"
          /\ rt_call.ret = o )
        ~> (\A i \in BucketIdx : o \notin SeqIds(buckets[i]))

----------------------------------------------------------------------------
(***************************************************************************)
(* Closest-contact queries: RoutingTable.find_closest_nodes                *)
(***************************************************************************)
\* all_nodes: the contacts of every bucket, in bucket order, oldest first
RECURSIVE AllNodesFrom(_, _)
AllNodesFrom(bs, i) ==
    IF i > IdBits - 1 THEN <<>> ELSE bs[i] \o AllNodesFrom(bs, i + 1)
get_all_nodes(bs) == AllNodesFrom(bs, 0)

\* a list left in the order it was gathered in
SortByDistance_unsorted(target, s) == s

\* list.sort(key=lambda n: xor_distance(target_id, n.node_id)): a stable sort,
\* each element going behind the elements whose key is not larger
RECURSIVE SortByDistance(_, _)
SortByDistance(target, s) ==
    IF s = <<>> THEN <<>>
    ELSE LET front == SortByDistance(target, SubSeq(s, 1, Len(s) - 1))
             x == s[Len(s)]
             before == SelectSeq(front, LAMBDA y :
                           xor_distance(target, y) <= xor_distance(target, x))
             after == SelectSeq(front, LAMBDA y :
                           xor_distance(target, y) > xor_distance(target, x))
         IN  before \o <<x>> \o after

\* s[:count] for count >= 0
Slice(s, count) == SubSeq(s, 1, IF count < Len(s) THEN count ELSE Len(s))

\* RoutingTable.find_closest_nodes(target_id, count)
find_closest_nodes(bs, target_id, count) ==
    Slice(SortByDistance(target_id, get_all_nodes(bs)), count)

\* KademliaNode._handle_find_node: the 'nodes' payload of the response
handle_find_node(bs, target_id) == find_closest_nodes(bs, target_id, K)

\* the contacts the routing table holds in its buckets
TableContacts == UNION { SeqIds(buckets[i]) : i \in BucketIdx }
Counts == 0 .. (K + 1)

\* C12: find_closest_nodes(target, count) over a table of N contacts returns
\* exactly min(count, N) contacts of the table, without duplicates, in
\* ascending xor-distance to the target, and no contact left out is closer
\* than a contact returned; FIND_NODE is answered with the list for count = K,
\* which is empty when the table is empty.
C12_ClosestNodes ==
    \A target \in NodeIds :
        /\ \A count \in Counts :
              LET r == find_closest_nodes(buckets, target, count)
                  N == Cardinality(TableContacts)
              IN  /\ Len(r) = (IF count < N THEN count ELSE N)
                  /\ SeqIds(r) \subseteq TableContacts
                  /\ NoDuplicates(r)
                  /\ \A a, b \in 1 .. Len(r) :
                        a < b => xor_distance(target, r[a]) < xor_distance(target, r[b])
                  /\ \A x \in SeqIds(r) : \A y \in TableContacts \ SeqIds(r) :
                        xor_distance(target, x) < xor_distance(target, y)
        /\ handle_find_node(buckets, target) = find_closest_nodes(buckets, target, K)
        /\ TableContacts = {} => handle_find_node(buckets, target) = <<>>

\* a table with more than K contacts in several buckets, and a target whose K
\* closest contacts are not the first K in bucket order
C12_Witness ==
    /\ rt_call.op = "add_node"
    /\ Cardinality(TableContacts) > K
    /\ \E i, j \in BucketIdx : i # j /\ buckets[i] # <<>> /\ buckets[j] # <<>>
    /\ \E target \in NodeIds :
          /\ Len(handle_find_node(buckets, target)) = K
          /\ handle_find_node(buckets, target) # Slice(get_all_nodes(buckets), K)

----------------------------------------------------------------------------
(***************************************************************************)
(* Iterative lookup: KademliaNode._iterative_lookup, find_node             *)
(* net[n] is the routing table of node n.  A lookup runs in rounds: the    *)
(* first ALPHA pending contacts are queried, their responses are awaited   *)
(* together (asyncio.gather) and processed in the order of the queries.    *)
(***************************************************************************)
EmptyTable == [buckets |-> [i \in BucketIdx |-> <<>>],
               replacement |-> [i \in BucketIdx |-> <<>>]]

\* RoutingTable.add_node on the table of node self, the returned contact dropped
RoutingTable_add_node(tbl, self, x) ==
    LET index == get_bucket_index(self, x)
    IN  IF x = self \/ index < 0 THEN tbl
        ELSE LET r == KBucket_add_node(tbl.buckets[index], tbl.replacement[index], x)
             IN  [buckets |-> [tbl.buckets EXCEPT ![index] = r.nodes],
                  replacement |-> [tbl.replacement EXCEPT ![index] = r.cache]]

\* RoutingTable.mark_node_seen on the table of node self
RoutingTable_mark_node_seen(tbl, self, x) ==
    LET index == get_bucket_index(self, x)
    IN  IF index < 0 THEN tbl
        ELSE [tbl EXCEPT !.buckets[index] = KBucket_mark_node_seen(@, x)]

\* RoutingTable.get_node(x) is not None
in_table(tbl, self, x) ==
    LET index == get_bucket_index(self, x)
    IN  index >= 0 /\ x \in SeqIds(tbl.buckets[index])

\* a result of gather is None (send_request timed out, or the answer is of
\* another type), an exception (send_request raises when the request cannot
\* be sent) or the list of contacts in the 'nodes' payload of the response
NoReply == << -1 >>
Raised == << -2 >>

\* RoutingTable.remove_node on the table of node self
RoutingTable_remove_node(tbl, self, x) ==
    LET index == get_bucket_index(self, x)
    IN  IF index < 0 THEN tbl
        ELSE LET r == KBucket_remove_node(tbl.buckets[index], tbl.replacement[index], x)
             IN  [buckets |-> [tbl.buckets EXCEPT ![index] = r.nodes],
                  replacement |-> [tbl.replacement EXCEPT ![index] = r.cache]]

\* for node_dict in result['nodes']: if not queried, put in pending and offer
\* to the routing table
RECURSIVE LearnNodes(_, _, _, _, _)
LearnNodes(tbl, pending, self, queried, nodes) ==
    IF nodes = <<>> THEN [tbl |-> tbl, pending |-> pending]
    ELSE LET y == Head(nodes)
         IN  IF y \in queried
             THEN LearnNodes(tbl, pending, self, queried, Tail(nodes))
             ELSE LearnNodes(RoutingTable_add_node(tbl, self, y),
                             DictSet(pending, y), self, queried, Tail(nodes))

\* for i, result in enumerate(results): the results of one round, in order;
\* only an exception removes the contact queried from the routing table
RECURSIVE ProcessResults(_, _, _, _, _, _)
ProcessResults(tbl, pending, self, queried, to_query, results) ==
    IF results = <<>> THEN [tbl |-> tbl, pending |-> pending]
    ELSE IF Head(results) = Raised
    THEN ProcessResults(RoutingTable_remove_node(tbl, self, Head(to_query)), pending,
                        self, queried, Tail(to_query), Tail(results))
    ELSE IF Head(results) = NoReply
    THEN ProcessResults(tbl, pending, self, queried, Tail(to_query), Tail(results))
    ELSE LET r == LearnNodes(tbl, pending, self, queried, Head(results))
         IN  ProcessResults(r.tbl, r.pending, self, queried, Tail(to_query),
                            Tail(results))

\* _send_find_node for each contact queried: a response marks it as seen
RECURSIVE MarkSeen(_, _, _, _)
MarkSeen(tbl, self, to_query, results) ==
    IF to_query = <<>> THEN tbl
    ELSE MarkSeen(IF Head(results) \in {NoReply, Raised} THEN tbl
                  ELSE RoutingTable_mark_node_seen(tbl, self, Head(to_query)),
                  self, Tail(to_query), Tail(results))

\* a sequence holding the members of a set (list(queried))
RECURSIVE SeqOfSet(_)
SeqOfSet(S) ==
    IF S = {} THEN <<>>
    ELSE LET x == CHOOSE y \in S : TRUE IN <<x>> \o SeqOfSet(S \ {x})

\* a final list left in the order of list(queried)
final_closest_unsorted(tbl, self, target, queried) ==
    Slice(SelectSeq(SeqOfSet(queried), LAMBDA x : in_table(tbl, self, x)), K)

\* final_closest: the contacts queried that get_node finds, sorted, cut to K
final_closest(tbl, self, target, queried) ==
    Slice(SortByDistance(target,
              SelectSeq(SeqOfSet(queried), LAMBDA x : in_table(tbl, self, x))), K)

IdleLookup == [pc |-> "idle", self |-> NoNode, target |-> NoNode, queried |-> {},
               pending |-> <<>>, observed |-> {}, closest_nodes |-> <<>>,
               seeds |-> {}, answered |-> {}, failed |-> {}]

\* _iterative_lookup up to its loop: the seeds are the K closest contacts known
iterative_lookup_begin(n, target) ==
    /\ lk.pc = "idle"
    /\ LET closest == find_closest_nodes(net[n].buckets, target, K)
       IN  lk' = [IdleLookup EXCEPT
                     !.pc = IF closest = <<>> THEN "done" ELSE "loop",
                     !.self = n, !.target = target,
                     !.pending = closest, !.observed = SeqIds(closest),
                     !.seeds = SeqIds(closest)]
    /\ UNCHANGED <<net, boot, notLookup>>

\* one pass of the while loop: query the first ALPHA pending contacts, process
\* their results, drop them from pending; netq is the network once the
\* contacts queried have handled the request
lookup_round(results, netq) ==
    /\ lk.pc = "loop"
    /\ lk.pending # <<>>
    /\ LET to_query == Slice(lk.pending, ALPHA)
           queried == lk.queried \cup SeqIds(to_query)
           seen == MarkSeen(netq[lk.self], lk.self, to_query, results)
           r == ProcessResults(seen, lk.pending, lk.self, queried, to_query, results)
           replied == { j \in 1 .. Len(results) : results[j] \notin {NoReply, Raised} }
           listed == UNION { SeqIds(results[i]) : i \in replied }
       IN  /\ Len(results) = Len(to_query)
           /\ net' = [netq EXCEPT ![lk.self] = r.tbl]
           /\ lk' = [lk EXCEPT !.queried = queried,
                               !.pending = SelectSeq(r.pending,
                                              LAMBDA x : x \notin SeqIds(to_query)),
                               !.observed = @ \cup listed,
                               !.answered = @ \cup { to_query[j] : j \in replied },
                               !.failed = @ \cup { to_query[j] :
                                                     j \in DOMAIN results \ replied }]
    /\ UNCHANGED <<boot, notLookup>>

\* the loop is left when nothing is pending; the result is computed
lookup_return ==
    /\ lk.pc = "loop"
    /\ lk.pending = <<>>
    /\ lk' = [lk EXCEPT !.pc = "done",
                        !.closest_nodes = final_closest(net[lk.self], lk.self,
                                                        lk.target, lk.queried)]
    /\ UNCHANGED <<net, boot, notLookup>>

\* the ids a lookup of this node is asked for
Targets == Contacts \cup { Pow2(IdBits) - 1 }

\* what a contact may answer to FIND_NODE: nothing, or at most K contacts
\* in ascending distance to the target
ReplyLists(self, target) ==
    { NoReply, Raised } \cup
    { SortByDistance(target, SeqOfSet(S)) :
        S \in { T \in SUBSET (Contacts \cup {self}) : Cardinality(T) <= K } }

InitLookup ==
    /\ net \in { [n \in {s} |-> EmptyTable] : s \in { 0, Pow2(IdBits) - 1 } }
    /\ lk = IdleLookup
    /\ boot = Parked
    /\ RoutingParked /\ StoreParked /\ DownloadParked /\ TransferParked
    /\ ObserveParked /\ ShareParked /\ DataParked /\ ProtocolParked
    /\ LifecycleParked
    /\ ReadersParked
    /\ FrameParked
    /\ ManifestsParked

\* _handle_message at node n for a request of contact x, before any lookup
lookup_observes(n, x) ==
    /\ lk.pc = "idle"
    /\ net' = [net EXCEPT ![n] = RoutingTable_add_node(net[n], n, x)]
    /\ UNCHANGED <<lk, boot, notLookup>>

NextLookup ==
    \/ \E n \in DOMAIN net : \E x \in Contacts : lookup_observes(n, x)
    \/ \E n \in DOMAIN net : \E target \in Targets : iterative_lookup_begin(n, target)
    \/ /\ lk.pc = "loop"
       /\ \E results \in [1 .. Len(Slice(lk.pending, ALPHA))
                              -> ReplyLists(lk.self, lk.target)] :
             lookup_round(results, net)
    \/ lookup_return

SpecLookup == InitLookup /\ [][NextLookup]_vars

\* C13: find_node(target) returns the K contacts closest to the target among
\* all contacts observed during the lookup (the seeds and every contact listed
\* in a response), in ascending xor-distance and without duplicates.
C13_ClosestObserved ==
    lk.pc = "done" =>
        lk.closest_nodes
            = Slice(SortByDistance(lk.target, SeqOfSet(lk.observed \ {lk.self})), K)

----------------------------------------------------------------------------
(***************************************************************************)
(* Three nodes joining one after the other: KademliaNode.bootstrap         *)
(* boot.ids = <<A, B, C>>: B bootstraps from A, then C from B, then A      *)
(* looks C up.  Every node answers; a node that queries its own address    *)
(* takes its own request for the response (datagram_received finds the     *)
(* message id pending), which _send_find_node turns into None.             *)
(***************************************************************************)
\* the ids the three nodes may have drawn
BootIds == SelfIds

InitBootstrap ==
    /\ \E a, b, c \in BootIds :
          /\ a # b /\ a # c /\ b # c
          /\ boot = [ids |-> <<a, b, c>>, joiner |-> 2, pc |-> "ping", refresh |-> 0]
          /\ net = [n \in {a, b, c} |-> EmptyTable]
    /\ lk = IdleLookup
    /\ RoutingParked /\ StoreParked /\ DownloadParked /\ TransferParked
    /\ ObserveParked /\ ShareParked /\ DataParked /\ ProtocolParked
    /\ LifecycleParked
    /\ ReadersParked
    /\ FrameParked
    /\ ManifestsParked

\* the node that bootstraps and the node it bootstraps from
Joiner == boot.ids[boot.joiner]
BootstrapNode == boot.ids[boot.joiner - 1]

\* bootstrap: the ping of the bootstrap node, which adds the sender when it
\* handles the PING; the PONG adds the bootstrap node
bootstrap_ping ==
    /\ boot.pc = "ping"
    /\ LET handled == [net EXCEPT ![BootstrapNode] =
                          RoutingTable_add_node(@, BootstrapNode, Joiner)]
       IN  net' = [handled EXCEPT ![Joiner] =
                      RoutingTable_add_node(@, Joiner, BootstrapNode)]
    /\ boot' = [boot EXCEPT !.pc = "find_self"]
    /\ UNCHANGED <<lk, notLookup>>

\* bootstrap: await self.find_node(self.node_id)
bootstrap_find_self ==
    /\ boot.pc = "find_self"
    /\ iterative_lookup_begin(Joiner, Joiner)

\* RoutingTable.get_refresh_targets: one random id for each empty bucket
get_refresh_targets_len(tbl) ==
    Cardinality({ i \in BucketIdx : tbl.buckets[i] = <<>> })

\* bootstrap: find_node returned; _refresh_buckets takes targets[:MaxRefresh]
bootstrap_refresh_buckets ==
    /\ boot.pc = "find_self"
    /\ lk.pc = "done"
    /\ LET n == get_refresh_targets_len(net[Joiner])
       IN  boot' = [boot EXCEPT !.pc = "refresh",
                                !.refresh = IF n < MaxRefresh THEN n ELSE MaxRefresh]
    /\ lk' = IdleLookup
    /\ UNCHANGED <<net, notLookup>>

\* _refresh_buckets: await self.find_node(target) for the next target
refresh_find_node(target) ==
    /\ boot.pc = "refresh"
    /\ boot.refresh > 0
    /\ iterative_lookup_begin(Joiner, target)

\* _refresh_buckets: find_node returned, on to the next target
refresh_next ==
    /\ boot.pc = "refresh"
    /\ boot.refresh > 0
    /\ lk.pc = "done"
    /\ boot' = [boot EXCEPT !.refresh = @ - 1]
    /\ lk' = IdleLookup
    /\ UNCHANGED <<net, notLookup>>

\* bootstrap returns (_bootstrap_complete = True); the next node bootstraps,
\* or, all three being up, A is ready to look C up
bootstrap_return ==
    /\ boot.pc = "refresh"
    /\ boot.refresh = 0
    /\ lk.pc = "idle"
    /\ boot' = IF boot.joiner < Len(boot.ids)
               THEN [boot EXCEPT !.joiner = @ + 1, !.pc = "ping"]
               ELSE [boot EXCEPT !.pc = "up"]
    /\ UNCHANGED <<lk, net, notLookup>>

\* A.find_node(C.id)
find_node_C ==
    /\ boot.pc = "up"
    /\ iterative_lookup_begin(boot.ids[1], boot.ids[Len(boot.ids)])

\* the contacts queried in a round, each a running node that handles the
\* FIND_NODE (adding the sender to its table) and answers with its K closest
net_lookup_round ==
    /\ lk.pc = "loop"
    /\ lk.pending # <<>>
    /\ LET to_query == Slice(lk.pending, ALPHA)
           answering == (SeqIds(to_query) \cap DOMAIN net) \ {lk.self}
           netq == [n \in DOMAIN net |->
                       IF n \in answering
                       THEN RoutingTable_add_node(net[n], n, lk.self)
                       ELSE net[n]]
           results == [i \in 1 .. Len(to_query) |->
                          IF to_query[i] \in answering
                          THEN handle_find_node(netq[to_query[i]].buckets, lk.target)
                          ELSE NoReply]
       IN  lookup_round(results, netq)

NextBootstrap ==
    \/ bootstrap_ping
    \/ bootstrap_find_self
    \/ bootstrap_refresh_buckets
    \/ \E target \in NodeIds : refresh_find_node(target)
    \/ refresh_next
    \/ bootstrap_return
    \/ find_node_C
    \/ net_lookup_round
    \/ lookup_return

SpecBootstrap == InitBootstrap /\ [][NextBootstrap]_vars

\* C14: with B bootstrapped from A and then C bootstrapped from B, all nodes
\* answering, A.find_node(C.id) returns a list whose first element is C.
C14_FindsNewestNode ==
    (boot.pc = "up" /\ lk.pc = "done") =>
        /\ lk.closest_nodes # <<>>
        /\ Head(lk.closest_nodes) = boot.ids[Len(boot.ids)]

\* A's lookup of C has returned both other nodes, C first
C14_Witness ==
    /\ boot.pc = "up"
    /\ lk.pc = "done"
    /\ lk.target = boot.ids[3]
    /\ lk.closest_nodes = <<boot.ids[3], boot.ids[2]>>

----------------------------------------------------------------------------
(***************************************************************************)
(* Files in the DHT: P2PNode.share, P2PNode.download (backend/src/node.py) *)
(* and FileDownloader.download_from_dht.  The DHT is seen from one node:   *)
(* dht_values[k] is what find_value(k) delivers, dht_peers the keys for    *)
(* which get_peers finds a peer.  Any node of the network can store any    *)
(* value under any key (_handle_store) and announce under any key.         *)
(***************************************************************************)
\* bytes.fromhex(info_hash): the 32 bytes the hex digest spells
fromhex(hex_str) == [raw |-> hex_str]
\* hashlib.sha1(b).digest()
SHA1(b) == [sha1_of |-> b]
\* info_hash_to_dht_key
info_hash_to_dht_key(info_hash) == SHA1(fromhex(info_hash))

\* the files shared: one chunk long
ShareFiles == { f \in FileContents : Len(f) = 1 }
ShareHashes == { SHA256(f) : f \in ShareFiles }
\* ChunkStorage.store_file: the manifest of a file
create_manifest(f) ==
    [info_hash |-> SHA256(f),
     chunks |-> [i \in 1 .. Len(f) |-> SHA256(<<f[i]>>)],
     size |-> Len(f)]
ShareManifests == { create_manifest(f) : f \in ShareFiles }

\* FileManifest.to_json / from_json
to_json(m) == [json_of |-> m]
from_json(j) == j.json_of
NoValue == [json_of |-> NoManifest]

\* the keys requests of this network carry
DhtKeys == { info_hash_to_dht_key(h) : h \in ShareHashes }
              \cup { fromhex(h) : h \in ShareHashes }

InitShare ==
    /\ dht_values = [k \in DhtKeys |-> NoValue]
    /\ dht_peers = {}
    /\ share_call = [op |-> "init", info_hash |-> NoHash, key |-> fromhex(NoHash),
                     manifest |-> NoManifest, ret |-> "none"]
    /\ RoutingParked /\ StoreParked /\ DownloadParked /\ TransferParked
    /\ ObserveParked /\ LookupParked /\ DataParked /\ ProtocolParked
    /\ LifecycleParked
    /\ ReadersParked
    /\ FrameParked
    /\ ManifestsParked

\* P2PNode.share: announce_peer and store under the DHT key of the manifest
share(f) ==
    LET manifest == create_manifest(f)
        dht_key == info_hash_to_dht_key(manifest.info_hash)
    IN  /\ dht_peers' = dht_peers \cup {dht_key}
        /\ dht_values' = [dht_values EXCEPT ![dht_key] = to_json(manifest)]
        /\ share_call' = [op |-> "share", info_hash |-> manifest.info_hash,
                          key |-> dht_key, manifest |-> manifest, ret |-> "shared"]
        /\ UNCHANGED notShare

\* _handle_store at the nodes of the network: a STORE of any sender
remote_store(k, m) ==
    /\ dht_values' = [dht_values EXCEPT ![k] = to_json(m)]
    /\ UNCHANGED <<dht_peers, share_call, notShare>>

\* _handle_announce_peer at the nodes of the network
remote_announce(k) ==
    /\ dht_peers' = dht_peers \cup {k}
    /\ UNCHANGED <<dht_values, share_call, notShare>>

\* ChunkDownloader.download_manifest: the manifest a peer sends, kept only if
\* its info_hash is the one asked for
download_manifest(sent, info_hash) ==
    IF sent # NoManifest /\ sent.info_hash = info_hash THEN sent ELSE NoManifest

\* P2PNode.download(info_hash); sent is what the peer answers REQUEST_MANIFEST
download(info_hash, sent) ==
    LET dht_key == info_hash_to_dht_key(info_hash)
        manifest_json == dht_values[dht_key]
        from_dht == IF manifest_json # NoValue THEN from_json(manifest_json)
                    ELSE NoManifest
        manifest == IF from_dht # NoManifest THEN from_dht
                    ELSE download_manifest(sent, info_hash)
    IN  /\ share_call' =
              [op |-> "download", info_hash |-> info_hash, key |-> dht_key,
               manifest |-> IF dht_key \in dht_peers THEN manifest ELSE from_dht,
               ret |-> IF dht_key \notin dht_peers THEN "no_peers"
                       ELSE IF manifest = NoManifest THEN "no_manifest"
                       ELSE "download_file"]
        /\ UNCHANGED <<dht_values, dht_peers, notShare>>

\* FileDownloader.download_from_dht(dht_node, info_hash)
download_from_dht(info_hash, sent) ==
    LET dht_key == fromhex(info_hash)
        manifest == download_manifest(sent, info_hash)
    IN  /\ share_call' =
              [op |-> "download_from_dht", info_hash |-> info_hash, key |-> dht_key,
               manifest |-> IF dht_key \in dht_peers THEN manifest ELSE NoManifest,
               ret |-> IF dht_key \notin dht_peers THEN "no_peers"
                       ELSE IF manifest = NoManifest THEN "no_manifest"
                       ELSE "download_file"]
        /\ UNCHANGED <<dht_values, dht_peers, notShare>>

NextShare ==
    \/ \E f \in ShareFiles : share(f)
    \/ \E k \in DhtKeys : \E m \in ShareManifests : remote_store(k, m)
    \/ \E k \in DhtKeys : remote_announce(k)
    \/ \E h \in ShareHashes : \E sent \in ShareManifests \cup {NoManifest} :
          download(h, sent)
    \/ \E h \in ShareHashes : \E sent \in ShareManifests \cup {NoManifest} :
          download_from_dht(h, sent)

SpecShare == InitShare /\ [][NextShare]_vars

\* C15: every DHT announce, store and lookup made for a file, when sharing it
\* and on every download path, uses the key SHA-1(info_hash bytes).
C15_KeyIsSha1 ==
    share_call.op # "init" =>
        share_call.key = [sha1_of |-> [raw |-> share_call.info_hash]]

\* C16: download only goes on to fetch chunks with a manifest whose info_hash
\* is the one requested, whether the DHT or a peer delivered the manifest.
C16_ManifestMatchesRequest ==
    share_call.ret = "download_file" =>
        share_call.manifest.info_hash = share_call.info_hash

----------------------------------------------------------------------------
(***************************************************************************)
(* The key-value store of a node: KademliaNode.store, _handle_store        *)
(***************************************************************************)
StoreKeys == 1 .. NumKeys
StoreValues == 1 .. NumValues
NoEntry == [value |-> 0, timestamp |-> -1]
NoKadCall == [op |-> "init", key |-> 0, value |-> 0, closest_nodes |-> {},
              accepted |-> {}, ret |-> FALSE, at |-> -1]

InitValues ==
    /\ now = 0
    /\ storage = [k \in StoreKeys |-> NoEntry]
    /\ kad_call = NoKadCall
    /\ peer_records = Parked /\ bootstrap_complete = Parked /\ next_refresh = Parked
    /\ RoutingParked /\ StoreParked /\ DownloadParked /\ TransferParked
    /\ ObserveParked /\ LookupParked /\ ShareParked /\ ProtocolParked
    /\ LifecycleParked
    /\ ReadersParked
    /\ FrameParked
    /\ ManifestsParked

\* time passes
values_tick ==
    /\ now < MaxTime
    /\ now' = now + 1
    /\ UNCHANGED <<storage, kad_call, peer_records, bootstrap_complete,
                   next_refresh, notData>>

\* store: the value returned, from the nodes find_node found and those of them
\* whose STORE_RESPONSE said success
store_result(closest_nodes, accepted) ==
    IF closest_nodes = {} THEN TRUE ELSE Cardinality(accepted) > 0

\* KademliaNode.store(key, value): closest_nodes is what find_node(key)
\* returned, accepted the nodes whose _store_on_node returned True
store(key, value, closest_nodes, accepted) ==
    /\ accepted \subseteq closest_nodes
    /\ storage' = [storage EXCEPT ![key] = [value |-> value, timestamp |-> now]]
    /\ kad_call' = [op |-> "store", key |-> key, value |-> value,
                    closest_nodes |-> closest_nodes, accepted |-> accepted,
                    ret |-> store_result(closest_nodes, accepted), at |-> now]
    /\ UNCHANGED <<now, peer_records, bootstrap_complete, next_refresh, notData>>

\* KademliaNode._handle_store: a STORE request of another node
handle_store(key, value) ==
    /\ storage' = [storage EXCEPT ![key] = [value |-> value, timestamp |-> now]]
    /\ kad_call' = [NoKadCall EXCEPT !.op = "handle_store", !.key = key,
                                     !.value = value, !.ret = TRUE, !.at = now]
    /\ UNCHANGED <<now, peer_records, bootstrap_complete, next_refresh, notData>>

\* the sets of nodes find_node can return: at most K contacts
ClosestSets == { S \in SUBSET Contacts : Cardinality(S) <= K }

NextValues ==
    \/ values_tick
    \/ \E key \in StoreKeys, value \in StoreValues :
          \E closest_nodes \in ClosestSets : \E accepted \in SUBSET closest_nodes :
              store(key, value, closest_nodes, accepted)
    \/ \E key \in StoreKeys, value \in StoreValues : handle_store(key, value)

SpecValues == InitValues /\ [][NextValues]_vars

\* C17: store(key, value) reports success if and only if at least one remote
\* node accepted the STORE, and in every case the value is stored locally
\* with the time of the call as its store-time.
C17_SuccessIffRemoteAccepted ==
    kad_call.op = "store" =>
        /\ kad_call.ret = (kad_call.accepted # {})
        /\ storage[kad_call.key] = [value |-> kad_call.value, timestamp |-> kad_call.at]

\* what store does guarantee: success whenever a remote node accepted, failure
\* when nodes were found and none accepted, and the local copy in every case
StoreSuccessIfRemoteAccepted ==
    kad_call.op = "store" =>
        /\ kad_call.accepted # {} => kad_call.ret = TRUE
        /\ (kad_call.closest_nodes # {} /\ kad_call.accepted = {}) => kad_call.ret = FALSE
        /\ storage[kad_call.key] = [value |-> kad_call.value, timestamp |-> kad_call.at]

----------------------------------------------------------------------------
(***************************************************************************)
(* Announced peers: _handle_announce_peer, announce_peer,                  *)
(* _handle_get_peers, _periodic_refresh, _cleanup_old_peers                *)
(* Time is counted in maintenance periods: _periodic_refresh sleeps one    *)
(* period and the clock does not pass its wake-up time before it has run.  *)
(***************************************************************************)
PeerKeys == 1 .. NumKeys
Ips == 1 .. NumIps
Ports == 1 .. NumPorts
\* self.ip: the host the node was started on ('0.0.0.0')
SelfIp == 0

\* info_hash.hex() in create_announce_peer, hex_to_id in the handler
hex(id) == [hex_of |-> id]
hex_to_id(h) == h.hex_of

\* an ANNOUNCE_PEER payload as it arrives: the two fields create_announce_peer
\* sets, and an address the sender may add
Payloads == [info_hash : { hex(h) : h \in PeerKeys }, port : Ports, ip : Ips]
\* addr: the source address of the datagram
Addrs == [ip : Ips, port : Ports]

NoPeerCall == [op |-> "init", info_hash |-> 0, payload |-> [port |-> 0],
               addr |-> [ip |-> 0], oldest |-> 0, at |-> -1]

AllRecords == UNION { peer_records[h] : h \in DOMAIN peer_records }

\* self._peers[info_hash].add(record), the set created when the key is new
AddRecord(map, info_hash, record) ==
    [h \in DOMAIN map \cup {info_hash} |->
        IF h = info_hash
        THEN (IF h \in DOMAIN map THEN map[h] ELSE {}) \cup {record}
        ELSE map[h]]

InitPeers ==
    /\ now = 0
    /\ peer_records = [h \in {} |-> {}]
    /\ bootstrap_complete = FALSE
    /\ next_refresh = 1
    /\ kad_call = NoPeerCall
    /\ storage = Parked
    /\ RoutingParked /\ StoreParked /\ DownloadParked /\ TransferParked
    /\ ObserveParked /\ LookupParked /\ ShareParked /\ ProtocolParked
    /\ LifecycleParked
    /\ ReadersParked
    /\ FrameParked
    /\ ManifestsParked

\* time passes, up to the moment _periodic_refresh wakes up
peers_tick ==
    /\ now < MaxTime
    /\ now < next_refresh
    /\ now' = now + 1
    /\ UNCHANGED <<peer_records, bootstrap_complete, next_refresh, kad_call,
                   storage, notData>>

\* bootstrap got an answer from a bootstrap node and finished
bootstrap_completes ==
    /\ bootstrap_complete = FALSE
    /\ bootstrap_complete' = TRUE
    /\ UNCHANGED <<now, peer_records, next_refresh, kad_call, storage, notData>>

\* a handler that records the address the payload names
recorded_ip_from_payload(payload, addr) == payload.ip

\* _handle_announce_peer: the IP recorded is addr[0]
recorded_ip(payload, addr) == addr.ip

\* KademliaNode._handle_announce_peer(message, addr)
handle_announce_peer(payload, addr) ==
    /\ Cardinality(AllRecords) < MaxRecords
    /\ LET info_hash == hex_to_id(payload.info_hash)
           port == payload.port
       IN  /\ peer_records' = AddRecord(peer_records, info_hash,
                                        <<recorded_ip(payload, addr), port, now>>)
           /\ kad_call' = [NoPeerCall EXCEPT !.op = "handle_announce_peer",
                              !.info_hash = info_hash, !.payload = payload,
                              !.addr = addr, !.at = now]
    /\ UNCHANGED <<now, bootstrap_complete, next_refresh, storage, notData>>

\* KademliaNode.announce_peer: the local record
announce_peer(info_hash, port) ==
    /\ Cardinality(AllRecords) < MaxRecords
    /\ peer_records' = AddRecord(peer_records, info_hash, <<SelfIp, port, now>>)
    /\ kad_call' = [NoPeerCall EXCEPT !.op = "announce_peer",
                       !.info_hash = info_hash, !.at = now]
    /\ UNCHANGED <<now, bootstrap_complete, next_refresh, storage, notData>>

\* the smallest timestamp of a set of records
OldestOf(records) ==
    IF records = {} THEN now
    ELSE CHOOSE t \in { r[3] : r \in records } : \A r \in records : t <= r[3]

\* KademliaNode._handle_get_peers / get_peers (local part): every record of
\* the key is returned as (ip, port)
handle_get_peers(info_hash) ==
    /\ info_hash \in DOMAIN peer_records
    /\ kad_call' = [NoPeerCall EXCEPT !.op = "handle_get_peers",
                       !.info_hash = info_hash,
                       !.oldest = OldestOf(peer_records[info_hash]),
                       !.at = now]
    /\ UNCHANGED <<now, peer_records, bootstrap_complete, next_refresh, storage,
                   notData>>

\* _cleanup_old_peers
cleanup_old_peers(map) ==
    LET kept(h) == { r \in map[h] : now - r[3] < PeerMaxAge }
    IN  [h \in { g \in DOMAIN map : kept(g) # {} } |-> kept(h)]

\* _periodic_refresh: one pass of the loop after the sleep
periodic_refresh ==
    /\ now = next_refresh
    /\ next_refresh' = now + 1
    /\ peer_records' = IF bootstrap_complete THEN cleanup_old_peers(peer_records)
                       ELSE peer_records
    /\ UNCHANGED <<now, bootstrap_complete, kad_call, storage, notData>>

NextPeers ==
    \/ peers_tick
    \/ bootstrap_completes
    \/ \E payload \in Payloads, addr \in Addrs : handle_announce_peer(payload, addr)
    \/ \E h \in PeerKeys, port \in Ports : announce_peer(h, port)
    \/ \E h \in PeerKeys : handle_get_peers(h)
    \/ periodic_refresh

SpecPeers == InitPeers /\ [][NextPeers]_vars

\* C18: on ANNOUNCE_PEER the responder records (source IP of the datagram,
\* port of the payload, time of receipt) under the payload's info_hash and
\* changes nothing else; no field of the payload alters the recorded IP.
C18_SourceIpRecorded ==
    [][ (kad_call'.op = "handle_announce_peer" /\ kad_call' # kad_call) =>
            peer_records' = AddRecord(peer_records,
                                      kad_call'.payload.info_hash.hex_of,
                                      <<kad_call'.addr.ip, kad_call'.payload.port, now>>)
      ]_vars

\* an announce whose payload names another address than the datagram's source
C18_Witness ==
    /\ kad_call.op = "handle_announce_peer"
    /\ kad_call.payload.ip # kad_call.addr.ip
    /\ kad_call.info_hash \in DOMAIN peer_records
    /\ <<kad_call.addr.ip, kad_call.payload.port, kad_call.at>>
           \in peer_records[kad_call.info_hash]

\* C19: a peer record does not stay in the peer map, and is not returned for
\* GET_PEERS, beyond one maintenance period after its age reached the
\* maximum age; a key whose record set is empty is not in the map.
C19_OldPeersDiscarded ==
    /\ \A h \in DOMAIN peer_records :
          /\ peer_records[h] # {}
          /\ \A r \in peer_records[h] : now - r[3] <= PeerMaxAge + 1
    /\ kad_call.op = "handle_get_peers" =>
          kad_call.at - kad_call.oldest <= PeerMaxAge + 1

(***************************************************************************)
(* DHTProtocol: the table of pending requests.  send_request creates a     *)
(* future, enters it in _pending under its message id, sends the datagram  *)
(* and waits for the future with asyncio.wait_for.  _handle_response       *)
(* completes the future of an arriving response; _cleanup_pending wakes    *)
(* every second and completes the futures of old entries with a            *)
(* TimeoutError.  Every message gets a fresh random 8-byte message id, so  *)
(* a request is named by its message id here.  Time is counted in seconds  *)
(* since the request's timestamp.                                          *)
(*                                                                         *)
(* The coroutines run on one event loop: a coroutine runs until it awaits  *)
(* something that is not ready.  _pending_lock is never held across such   *)
(* an await, so it is free whenever a coroutine asks for it, and each      *)
(* `async with self._pending_lock` block runs without interruption.        *)
(***************************************************************************)
Requests == 1 .. NumRequests

NoRequest ==
    [pc |-> "idle", future |-> "none", age |-> 0, wire |-> "none",
     task |-> FALSE, ret |-> "none"]

InitPending ==
    /\ _pending = {}
    /\ requests = [r \in Requests |-> NoRequest]
    /\ swept = FALSE
    /\ RoutingParked /\ StoreParked /\ DownloadParked /\ TransferParked
    /\ ObserveParked /\ LookupParked /\ ShareParked /\ DataParked
    /\ LifecycleParked
    /\ ReadersParked
    /\ FrameParked
    /\ ManifestsParked

\* no coroutine is between two statements that run without an await
LoopFree == \A r \in Requests : requests[r].pc # "inserted"

\* send_request, up to the release of the lock: future created, entry made
send_request_insert(r) ==
    /\ LoopFree
    /\ requests[r].pc = "idle"
    /\ _pending' = _pending \cup {r}
    /\ requests' = [requests EXCEPT ![r].pc = "inserted",
                                    ![r].future = "pending",
                                    ![r].age = 0]
    /\ UNCHANGED <<swept, notProtocol>>

\* send_request: send_message, then the await of wait_for
send_request_send(r) ==
    /\ requests[r].pc = "inserted"
    /\ requests' = [requests EXCEPT ![r].pc = "waiting", ![r].wire = "request"]
    /\ UNCHANGED <<_pending, swept, notProtocol>>

\* the remote node answers with the message id of the request
remote_responds(r) ==
    /\ requests[r].wire = "request"
    /\ requests' = [requests EXCEPT ![r].wire = "response"]
    /\ UNCHANGED <<_pending, swept, notProtocol>>

\* UDP loses the request or the response
datagram_lost(r) ==
    /\ requests[r].wire \in {"request", "response"}
    /\ requests' = [requests EXCEPT ![r].wire = "lost"]
    /\ UNCHANGED <<_pending, swept, notProtocol>>

\* datagram_received: a message whose id is pending goes to
\* _handle_response, any other message is handled as a request
datagram_received(r) ==
    /\ LoopFree
    /\ requests[r].wire = "response"
    /\ requests' = [requests EXCEPT ![r].wire = "delivered",
                                    ![r].task = (r \in _pending)]
    /\ UNCHANGED <<_pending, swept, notProtocol>>

\* _handle_response
handle_response(r) ==
    /\ LoopFree
    /\ requests[r].task
    /\ _pending' = _pending \ {r}
    /\ requests' = [requests EXCEPT
           ![r].task = FALSE,
           ![r].future = IF r \in _pending /\ requests[r].future = "pending"
                         THEN "result" ELSE requests[r].future]
    /\ UNCHANGED <<swept, notProtocol>>

\* a second passes
pending_tick ==
    /\ LoopFree
    /\ swept
    /\ swept' = FALSE
    /\ requests' = [r \in Requests |->
           IF requests[r].pc # "idle" /\ requests[r].age <= REQUEST_TIMEOUT
           THEN [requests[r] EXCEPT !.age = requests[r].age + 1]
           ELSE requests[r]]
    /\ UNCHANGED <<_pending, notProtocol>>

\* _cleanup_pending, the pass it makes after each sleep of one second
cleanup_pending ==
    /\ LoopFree
    /\ ~swept
    /\ swept' = TRUE
    /\ LET timed_out == { r \in _pending : requests[r].age > REQUEST_TIMEOUT }
       IN /\ _pending' = _pending \ timed_out
          /\ requests' = [r \in Requests |->
                 IF r \in timed_out /\ requests[r].future = "pending"
                 THEN [requests[r] EXCEPT !.future = "exception"]
                 ELSE requests[r]]
    /\ UNCHANGED notProtocol

\* wait_for returns the result of the future
wait_for_returns(r) ==
    /\ LoopFree
    /\ requests[r].pc = "waiting"
    /\ requests[r].future = "result"
    /\ requests' = [requests EXCEPT ![r].pc = "done", ![r].ret = "response"]
    /\ UNCHANGED <<_pending, swept, notProtocol>>

\* wait_for raises the TimeoutError that _cleanup_pending has set
wait_for_raises(r) ==
    /\ LoopFree
    /\ requests[r].pc = "waiting"
    /\ requests[r].future = "exception"
    /\ requests' = [requests EXCEPT ![r].pc = "except"]
    /\ UNCHANGED <<_pending, swept, notProtocol>>

\* the timeout of wait_for elapses: it cancels the future and raises
\* TimeoutError.  A result set in the same loop iteration is returned or
\* dropped, depending on the asyncio version; wait_for_returns is the
\* first outcome, this action the second.
wait_for_timeout(r) ==
    /\ LoopFree
    /\ requests[r].pc = "waiting"
    /\ requests[r].age >= REQUEST_TIMEOUT
    /\ requests[r].future \in {"pending", "result"}
    /\ requests' = [requests EXCEPT
           ![r].pc = "except",
           ![r].future = IF requests[r].future = "pending"
                         THEN "cancelled" ELSE requests[r].future]
    /\ UNCHANGED <<_pending, swept, notProtocol>>

timeout_pop_skipped(table, message_id) == table

\* self._pending.pop(message.message_id, None)
timeout_pop(table, message_id) == table \ {message_id}

\* send_request, the except branch: drop the entry, return None
send_request_except(r) ==
    /\ LoopFree
    /\ requests[r].pc = "except"
    /\ _pending' = timeout_pop(_pending, r)
    /\ requests' = [requests EXCEPT ![r].pc = "done", ![r].ret = "None"]
    /\ UNCHANGED <<swept, notProtocol>>

NextPending ==
    \/ \E r \in Requests : send_request_insert(r)
    \/ \E r \in Requests : send_request_send(r)
    \/ \E r \in Requests : remote_responds(r)
    \/ \E r \in Requests : datagram_lost(r)
    \/ \E r \in Requests : datagram_received(r)
    \/ \E r \in Requests : handle_response(r)
    \/ pending_tick
    \/ cleanup_pending
    \/ \E r \in Requests : wait_for_returns(r)
    \/ \E r \in Requests : wait_for_raises(r)
    \/ \E r \in Requests : wait_for_timeout(r)
    \/ \E r \in Requests : send_request_except(r)

\* The event loop runs every coroutine that is ready and every timer that
\* is due, and time passes; the network and the remote node owe nothing.
SpecPending ==
    /\ InitPending
    /\ [][NextPending]_vars
    /\ WF_vars(pending_tick)
    /\ WF_vars(cleanup_pending)
    /\ \A r \in Requests :
          /\ WF_vars(send_request_send(r))
          /\ WF_vars(handle_response(r))
          /\ WF_vars(wait_for_returns(r))
          /\ WF_vars(wait_for_raises(r))
          /\ WF_vars(wait_for_timeout(r))
          /\ WF_vars(send_request_except(r))

\* the datagram leaves with its message id in the table
EnteredBeforeSent ==
    \A r \in Requests :
        (requests[r].wire = "none" /\ requests'[r].wire # "none")
        => r \in _pending

\* an entry leaves the table for a response that arrived or after the timeout
RemovedOnResponseOrTimeout ==
    \A r \in Requests :
        (r \in _pending /\ r \notin _pending')
        => \/ requests[r].task /\ requests[r].wire = "delivered"
           \/ requests[r].age >= REQUEST_TIMEOUT

\* a finished request has a response that arrived, or None after the timeout,
\* and no entry in the table
CompletedRequest(r) ==
    requests[r].pc = "done"
    => /\ r \notin _pending
       /\ requests[r].ret \in {"response", "None"}
       /\ requests[r].ret = "response" => requests[r].wire = "delivered"
       /\ requests[r].ret = "None" => requests[r].age >= REQUEST_TIMEOUT

DupSelf == Pow2(IdBits) - 1

\* the contact request r was sent to; its answers come from that contact
sender_id(r) == r - 1

\* the types a datagram may carry: a response, or a request
DatagramTypes == {"PONG", "PING"}

NoMessage == [op |-> "init", message_id |-> 0, type |-> "none", reply |-> "none"]

\* handlers.get(message.type) and the reply of the handler it finds
handler_reply(type) == IF type = "PING" THEN "PONG" ELSE "none"

InitDuplicate ==
    /\ _pending = {}
    /\ requests = [r \in Requests |-> NoRequest]
    /\ swept = FALSE
    /\ net = [n \in {DupSelf} |-> EmptyTable]
    /\ kad_call = NoMessage
    /\ lk = Parked /\ boot = Parked
    /\ now = Parked /\ storage = Parked /\ peer_records = Parked
    /\ bootstrap_complete = Parked /\ next_refresh = Parked
    /\ RoutingParked /\ StoreParked /\ DownloadParked /\ TransferParked
    /\ ObserveParked /\ ShareParked
    /\ LifecycleParked
    /\ ReadersParked
    /\ FrameParked
    /\ ManifestsParked

\* UDP delivers a datagram a second time
datagram_duplicated(r) ==
    /\ requests[r].wire = "delivered"
    /\ requests' = [requests EXCEPT ![r].wire = "response"]
    /\ UNCHANGED <<_pending, swept, notProtocol>>

\* datagram_received with both of its branches: _handle_response for a
\* pending id, else _handle_request -> _handle_message, which offers the
\* sender to the routing table and sends the reply of the type's handler
node_datagram_received(r, type) ==
    /\ LoopFree
    /\ requests[r].wire = "response"
    /\ IF r \in _pending
       THEN /\ requests' = [requests EXCEPT ![r].wire = "delivered",
                                            ![r].task = TRUE]
            /\ UNCHANGED <<net, kad_call>>
       ELSE /\ requests' = [requests EXCEPT ![r].wire = "delivered"]
            /\ net' = [net EXCEPT ![DupSelf] =
                          RoutingTable_add_node(@, DupSelf, sender_id(r))]
            /\ kad_call' = [op |-> "handle_message", message_id |-> r,
                            type |-> type, reply |-> handler_reply(type)]
    /\ UNCHANGED <<_pending, swept, lk, boot, now, storage, peer_records,
                   bootstrap_complete, next_refresh,
                   rtVars, fsVars, dlVars, tpVars, obVars, shVars, lcVars, rdVars, rxVars, mfVars>>

NextDuplicate ==
    \/ \E r \in Requests : send_request_insert(r)
    \/ \E r \in Requests : send_request_send(r)
    \/ \E r \in Requests : remote_responds(r)
    \/ \E r \in Requests : datagram_lost(r)
    \/ \E r \in Requests : datagram_duplicated(r)
    \/ \E r \in Requests, type \in DatagramTypes : node_datagram_received(r, type)
    \/ \E r \in Requests : handle_response(r)
    \/ pending_tick
    \/ cleanup_pending
    \/ \E r \in Requests : wait_for_returns(r)
    \/ \E r \in Requests : wait_for_raises(r)
    \/ \E r \in Requests : wait_for_timeout(r)
    \/ \E r \in Requests : send_request_except(r)

SpecDuplicate == InitDuplicate /\ [][NextDuplicate]_vars

\* C21: a datagram that carries the message id of a request that has
\* completed is ignored: receiving it completes no request, sends no reply and
\* leaves the routing table as it was.
C21_CompletedIdIgnored ==
    [][\A r \in Requests :
          ( /\ requests[r].pc = "done"
            /\ requests[r].wire = "response"
            /\ requests'[r].wire = "delivered" )
          => /\ requests' = [requests EXCEPT ![r].wire = "delivered"]
             /\ UNCHANGED <<_pending, net, kad_call>>]_vars

(***************************************************************************)
(* KademliaNode.start and stop.  start opens a UDP endpoint with a new     *)
(* DHTProtocol and creates a _periodic_refresh task, of which it keeps no  *)
(* reference; stop clears _running and closes the endpoint, and            *)
(* connection_lost then cancels the protocol's _cleanup_pending task.      *)
(* _periodic_refresh tests _running at the top of its loop only.  The      *)
(* requests followed here are those of the first run, and _pending is the  *)
(* table of the DHTProtocol of that run.                                   *)
(***************************************************************************)
Tasks == 1 .. Len(refresh_tasks)
TaskIds == 1 .. MaxStarts

InitStop ==
    /\ _running = FALSE
    /\ transport = "none"
    /\ refresh_tasks = <<>>
    /\ bootstrap_complete = FALSE
    /\ _pending = {}
    /\ requests = [r \in Requests |-> NoRequest @@ [at_stop |-> FALSE]]
    /\ swept = FALSE
    /\ now = Parked /\ storage = Parked /\ peer_records = Parked
    /\ next_refresh = Parked /\ kad_call = Parked
    /\ RoutingParked /\ StoreParked /\ DownloadParked /\ TransferParked
    /\ ObserveParked /\ LookupParked /\ ShareParked
    /\ ReadersParked
    /\ FrameParked
    /\ ManifestsParked

\* the DHTProtocol of the first run has its endpoint and its sweep
FirstRun == transport = "open" /\ Len(refresh_tasks) = 1

\* KademliaNode.start; a task created earlier has made its first step by the
\* time create_datagram_endpoint returns
start ==
    /\ ~_running
    /\ Len(refresh_tasks) < MaxStarts
    /\ \A t \in Tasks : refresh_tasks[t] # "created"
    /\ _running' = TRUE
    /\ transport' = "open"
    /\ refresh_tasks' = Append(refresh_tasks, "created")
    /\ UNCHANGED notLifecycle

\* KademliaNode.stop, with the connection_lost it causes: the sweep task is
\* cancelled, the futures in _pending are left as they are
stop ==
    /\ _running
    /\ LoopFree
    /\ _running' = FALSE
    /\ transport' = "none"
    /\ requests' = [r \in Requests |->
           [requests[r] EXCEPT !.at_stop = (r \in _pending)]]
    /\ UNCHANGED <<refresh_tasks, _pending, swept,
                   rtVars, fsVars, dlVars, tpVars, obVars, lkVars, shVars, kdVars,
                   rdVars, rxVars, mfVars>>

\* _periodic_refresh: while self._running
refresh_test(t) ==
    /\ t \in Tasks
    /\ refresh_tasks[t] \in {"created", "test"}
    /\ refresh_tasks' = [refresh_tasks EXCEPT
           ![t] = IF _running THEN "sleep" ELSE "ended"]
    /\ UNCHANGED <<_running, transport, notLifecycle>>

\* _periodic_refresh: the sleep of 60 s ends; without a completed bootstrap
\* the loop continues, otherwise the maintenance pass starts
refresh_wake(t) ==
    /\ t \in Tasks
    /\ refresh_tasks[t] = "sleep"
    /\ refresh_tasks' = [refresh_tasks EXCEPT
           ![t] = IF bootstrap_complete THEN "pass" ELSE "test"]
    /\ UNCHANGED <<_running, transport, notLifecycle>>

\* _periodic_refresh: _refresh_buckets, _republish_data and
\* _cleanup_old_peers have run
refresh_pass(t) ==
    /\ t \in Tasks
    /\ refresh_tasks[t] = "pass"
    /\ refresh_tasks' = [refresh_tasks EXCEPT ![t] = "test"]
    /\ UNCHANGED <<_running, transport, notLifecycle>>

\* a request of the first run; one request is followed
node_send_request(r) ==
    /\ FirstRun
    /\ \A q \in Requests : requests[q].pc = "idle"
    /\ send_request_insert(r)

\* a datagram reaches the open endpoint of the first run
node_datagram(r) == FirstRun /\ datagram_received(r)

\* a second passes while the sweep of the first run is alive
running_tick == FirstRun /\ pending_tick

\* the sweep of the first run
running_cleanup == FirstRun /\ cleanup_pending

\* a second passes after the sweep has been cancelled
stopped_tick ==
    /\ ~FirstRun
    /\ LoopFree
    /\ \E r \in Requests :
          requests[r].pc # "idle" /\ requests[r].age <= REQUEST_TIMEOUT
    /\ requests' = [r \in Requests |->
           IF requests[r].pc # "idle" /\ requests[r].age <= REQUEST_TIMEOUT
           THEN [requests[r] EXCEPT !.age = requests[r].age + 1]
           ELSE requests[r]]
    /\ UNCHANGED <<_pending, swept, notProtocol>>

NextStop ==
    \/ start
    \/ stop
    \/ bootstrap_completes
    \/ \E t \in TaskIds : refresh_test(t)
    \/ \E t \in TaskIds : refresh_wake(t)
    \/ \E t \in TaskIds : refresh_pass(t)
    \/ \E r \in Requests : node_send_request(r)
    \/ \E r \in Requests : send_request_send(r)
    \/ \E r \in Requests : remote_responds(r)
    \/ \E r \in Requests : datagram_lost(r)
    \/ \E r \in Requests : node_datagram(r)
    \/ \E r \in Requests : handle_response(r)
    \/ running_tick
    \/ running_cleanup
    \/ stopped_tick
    \/ \E r \in Requests : wait_for_returns(r)
    \/ \E r \in Requests : wait_for_raises(r)
    \/ \E r \in Requests : wait_for_timeout(r)
    \/ \E r \in Requests : send_request_except(r)

SpecStop == InitStop /\ [][NextStop]_vars

\* a maintenance loop that will make further passes
ActiveLoop(t) ==
    \/ refresh_tasks[t] \in {"sleep", "pass"}
    \/ refresh_tasks[t] \in {"created", "test"} /\ _running

\* a maintenance pass starts on a running node only
PassOnlyWhileRunning ==
    \A t \in Tasks :
        (refresh_tasks[t] = "sleep" /\ refresh_tasks'[t] = "pass") => _running

\* C22: after stop no further maintenance pass starts; a node that is started
\* again has at most one active maintenance loop; a stopped node has no open
\* UDP endpoint; a request that was pending when stop ran completes with a
\* cancellation error, not with the None of its timeout.
C22_StopQuiesces ==
    /\ [][PassOnlyWhileRunning]_vars
    /\ [](Cardinality({ t \in Tasks : ActiveLoop(t) }) <= 1)
    /\ [](~_running => transport # "open")
    /\ [](\A r \in Requests :
             (requests[r].at_stop /\ requests[r].pc = "done")
             => requests[r].ret = "cancelled")

\* the parts of C22, one at a time
StopEndsPasses == [][PassOnlyWhileRunning]_vars
OneLoopAfterRestart == Cardinality({ t \in Tasks : ActiveLoop(t) }) <= 1
StopClosesEndpoint == ~_running => transport # "open"
StopCancelsPending ==
    \A r \in Requests :
        (requests[r].at_stop /\ requests[r].pc = "done")
        => requests[r].ret = "cancelled"

----------------------------------------------------------------------------
(***************************************************************************)
(* Claims about the progress record of a download (DownloadProgress)       *)
(***************************************************************************)

\* every chunk of the manifest has a file in the chunk store, after the step
AllChunksPresentNext ==
    \A k \in 1 .. Len(dl.manifest.chunks) : fs_chunks'[dl.manifest.chunks[k]] # NoFile

\* the changes of progress.phase a step may make
PhaseStep ==
    dl'.phase # dl.phase =>
        /\ \/ dl.phase = "none" /\ dl'.phase = "downloading"
           \/ dl.phase = "downloading" /\ dl'.phase \in {"merging", "failed"}
           \/ dl.phase = "merging" /\ dl'.phase \in {"complete", "failed"}
        /\ dl'.phase = "merging" => AllChunksPresentNext
        /\ dl'.phase = "complete" => ra.ret = "path"

\* C23: the phase of a download only moves forward, downloading, merging,
\* complete, or to failed; merging is entered only with every chunk of the
\* manifest in the chunk store; complete is entered only from merging after
\* reassemble_file returned a path; complete and failed are never left.
C23_PhaseMovesForward == [][PhaseStep]_vars

\* a download that fetched chunks, merged them and became complete
C23_Witness ==
    /\ dl.phase = "complete"
    /\ dl.downloaded_chunks > 0
    /\ dl.ret = "path"

\* the number of chunk states with the given status
StateCount(status) ==
    Cardinality({ h \in DOMAIN dl.chunk_states : dl.chunk_states[h] = status })

\* C24: when a download has reached phase complete or failed, the chunk states
\* that are complete and those that are failed add up to total_chunks, the
\* complete ones are as many as downloaded_chunks and the failed ones as many
\* as failed_chunks, for every manifest, one with two chunks of the same
\* content included.
C24_StatesAccountForChunks ==
    dl.phase \in {"complete", "failed"} =>
        /\ StateCount("complete") + StateCount("failed") = dl.total_chunks
        /\ StateCount("complete") = dl.downloaded_chunks
        /\ StateCount("failed") = dl.failed_chunks

\* the manifest names no chunk twice
DistinctChunks ==
    \A a, b \in 1 .. Len(dl.manifest.chunks) :
        a # b => dl.manifest.chunks[a] # dl.manifest.chunks[b]

\* the same, for manifests that name no chunk twice
StatesAccountForDistinctChunks == DistinctChunks => C24_StatesAccountForChunks

(***************************************************************************)
(* FileDownloader._assign_chunks_round_robin on its own, with longer lists *)
(* than a whole download is followed with.  The peer list is the shuffled  *)
(* list(peers) of download_file; get_peers builds it from a set, so no     *)
(* peer is in it twice and an assignment is named by the position of its   *)
(* peer.                                                                   *)
(***************************************************************************)
MissingLists == UNION { [1 .. n -> ChunkHashes] : n \in 0 .. MaxMissing }
AssignPeerLists ==
    { ps \in UNION { [1 .. n -> 1 .. MaxAssignPeers] : n \in 1 .. MaxAssignPeers } :
        \A a, b \in DOMAIN ps : a # b => ps[a] # ps[b] }

InitAssign ==
    /\ \E chunks \in MissingLists, peers \in AssignPeerLists :
          dl = [pc |-> "shuffled", missing |-> chunks, peers |-> peers,
                chunk_assignments |-> <<>>]
    /\ task = Parked /\ pool = Parked
    /\ RoutingParked /\ StoreParked /\ TransferParked /\ DhtParked

\* download_file, line 355: chunk_assignments = _assign_chunks_round_robin(...)
assign_chunks ==
    /\ dl.pc = "shuffled"
    /\ dl' = [dl EXCEPT
                !.pc = "assigned",
                !.chunk_assignments =
                    [j \in 1 .. Len(dl.peers) |->
                        assign_chunks_round_robin(dl.missing, dl.peers, j)]]
    /\ UNCHANGED <<task, pool, fsVars, notDownload>>

NextAssign == assign_chunks

SpecAssign == InitAssign /\ [][NextAssign]_vars

RECURSIVE SumLen(_, _)
SumLen(lists, j) == IF j = 0 THEN 0 ELSE Len(lists[j]) + SumLen(lists, j - 1)

\* C25: the i-th missing chunk is in the list of peers[i mod |peers|] (at the
\* place its turn gives it) and the lists hold nothing else, so every missing
\* chunk is assigned to exactly one peer; every peer of the list has a list;
\* the lengths of two lists differ by at most one.
C25_RoundRobin ==
    dl.pc = "assigned" =>
        LET n == Len(dl.peers)
            lists == dl.chunk_assignments
        IN  /\ DOMAIN lists = 1 .. n
            /\ \A i \in 1 .. Len(dl.missing) :
                  LET j == ((i - 1) % n) + 1
                      k == ((i - 1) \div n) + 1
                  IN  k <= Len(lists[j]) /\ lists[j][k] = dl.missing[i]
            /\ SumLen(lists, n) = Len(dl.missing)
            /\ \A a, b \in 1 .. n : Len(lists[a]) - Len(lists[b]) <= 1

\* five chunks over three peers: lists of two, two and one chunk
C25_Witness ==
    /\ dl.pc = "assigned"
    /\ Len(dl.missing) = MaxMissing
    /\ Len(dl.peers) = MaxAssignPeers
    /\ Len(dl.chunk_assignments[1]) > Len(dl.chunk_assignments[MaxAssignPeers])

\* C26: every chunk arrives from one peer only: a chunk hash of the download
\* has at most one successful fetch, so downloaded_chunks, which counts the
\* successful fetches, never exceeds the number of chunk hashes the download
\* fetches.
C26_OneFetchPerChunk ==
    dl.phase # "none" => dl.downloaded_chunks <= Cardinality(DOMAIN dl.chunk_states)

\* the same, for manifests that name no chunk twice
OneFetchPerDistinctChunk == DistinctChunks => C26_OneFetchPerChunk

----------------------------------------------------------------------------
(***************************************************************************)
(* ChunkStorage.get_chunk (file/storage.py).  The uploader calls it once   *)
(* per chunk request, from one coroutine per connection, so several calls  *)
(* for the same hash run at a time.  A call looks for the file, reads it,  *)
(* and removes it when the bytes read do not hash to the name; the read    *)
(* and the remove are awaited, other coroutines run in between.            *)
(***************************************************************************)
Readers == 1 .. NumReaders
notReadStore == <<rtVars, dlVars, tpVars, obVars, lkVars, shVars, kdVars, pdVars, lcVars, rxVars, mfVars>>
notFrame == <<rtVars, fsVars, dlVars, tpVars, obVars, lkVars, shVars, kdVars, pdVars, lcVars, rdVars, mfVars>>
notManifests == <<rtVars, fsVars, dlVars, tpVars, obVars, lkVars, shVars, kdVars, pdVars, lcVars, rdVars, rxVars>>

IdleGet == [pc |-> "idle", hash |-> NoHash, data |-> NoContent, ret |-> "none"]

\* what a chunk file may hold: the chunk, or something else after a fault of
\* the disk or of a writer (another chunk's bytes, a zero byte, nothing)
OnDisk(h) == { h.digest_of, <<ZeroByte>>, <<>> } \cup ChunkBodies

\* the chunk file of the k-th hash, when there is one, is file k
InitGetChunk ==
    /\ \E present \in SUBSET Bytes :
       \E content \in [Bytes -> ChunkBodies \cup { <<ZeroByte>>, <<>> }] :
          /\ \A b \in Bytes : b \notin present => content[b] = <<>>
          /\ fs_chunks = [h \in ChunkHashes |->
                             IF h.digest_of[1] \in present
                             THEN h.digest_of[1] ELSE NoFile]
          /\ fs_inode = [n \in Inodes |->
                             IF n \in present THEN content[n] ELSE <<>>]
    /\ fs_temp = [h \in InfoHashes |-> NoFile]
    /\ fs_out = NoFile
    /\ put = [t \in PutTasks |-> IdlePut]
    /\ ra = IdleRa
    /\ get = [t \in Readers |-> IdleGet]
    /\ RoutingParked /\ DownloadParked /\ TransferParked
    /\ ObserveParked /\ LookupParked /\ ShareParked /\ DataParked
    /\ ProtocolParked /\ LifecycleParked
    /\ FrameParked
    /\ ManifestsParked

\* get_chunk, lines 144-147: chunk_path.exists()
get_chunk_call(t, h) ==
    /\ get[t].pc = "idle"
    /\ get' = [get EXCEPT ![t] =
                 IF has_chunk(h)
                 THEN [pc |-> "open", hash |-> h, data |-> NoContent, ret |-> "none"]
                 ELSE [pc |-> "done", hash |-> h, data |-> NoContent, ret |-> "None"]]
    /\ UNCHANGED <<fsVars, notReadStore>>

\* get_chunk, lines 149-150: open the file and read it; open raises
\* FileNotFoundError when the file is gone by now
get_chunk_read(t) ==
    /\ get[t].pc = "open"
    /\ get' = [get EXCEPT ![t] =
                 IF has_chunk(get[t].hash)
                 THEN [@ EXCEPT !.pc = "verify", !.data = ChunkFile(get[t].hash)]
                 ELSE [@ EXCEPT !.pc = "done", !.ret = "raised"]]
    /\ UNCHANGED <<fsVars, notReadStore>>

\* get_chunk, lines 153-154: the hash of the bytes read is the name
verified(chunk_hash, data) == SHA256(data) = chunk_hash

\* get_chunk, lines 153-159: return the bytes when they hash to the name;
\* otherwise remove the file, which raises FileNotFoundError when it is gone,
\* and return None
get_chunk_verify(t) ==
    /\ get[t].pc = "verify"
    /\ LET h == get[t].hash
       IN  IF verified(h, get[t].data)
           THEN /\ get' = [get EXCEPT ![t].pc = "done", ![t].ret = "data"]
                /\ UNCHANGED <<fs_chunks, fs_inode>>
           ELSE IF has_chunk(h)
           THEN /\ fs_chunks' = [fs_chunks EXCEPT ![h] = NoFile]
                /\ fs_inode' = Collect(fs_inode, fs_chunks', fs_temp, fs_out, put, ra)
                /\ get' = [get EXCEPT ![t].pc = "done", ![t].ret = "None",
                                      ![t].data = NoContent]
           ELSE /\ get' = [get EXCEPT ![t].pc = "done", ![t].ret = "raised",
                                      ![t].data = NoContent]
                /\ UNCHANGED <<fs_chunks, fs_inode>>
    /\ UNCHANGED <<fs_temp, fs_out, put, ra, notReadStore>>

NextGetChunk ==
    \/ \E t \in Readers, h \in ChunkHashes : get_chunk_call(t, h)
    \/ \E t \in Readers : get_chunk_read(t)
    \/ \E t \in Readers : get_chunk_verify(t)

SpecGetChunk == InitGetChunk /\ [][NextGetChunk]_vars

\* the step in which the get_chunk call of reader t ends
Returns(t) == get[t].ret = "none" /\ get'[t].ret # "none"

\* what a call that ends must have done
GetChunkContract(t) ==
    LET h == get'[t].hash
    IN  /\ get'[t].ret \in {"data", "None"}
        /\ get'[t].ret = "data" =>
              /\ SHA256(get'[t].data) = h
              /\ get'[t].data = ChunkFile(h)
              /\ UNCHANGED fsVars
        /\ get'[t].ret = "None" =>
              /\ fs_chunks'[h] = NoFile
              /\ ChunkFile(h) # NoContent => SHA256(ChunkFile(h)) # h
              /\ \A g \in ChunkHashes \ {h} : fs_chunks'[g] = fs_chunks[g]

\* C27: get_chunk(h) ends by returning the content or not-found.  It returns
\* not-found when there is no file or the content does not hash to h, and
\* then no file is left for h, so has_chunk(h) is false afterwards; it
\* returns the content when it hashes to h, and then the store is unchanged.
C27_GetChunkSelfHeals ==
    [][\A t \in Readers : Returns(t) => GetChunkContract(t)]_vars

\* the same for a call that no other call runs beside
GetChunkAlone ==
    [][\A t \in Readers :
          (Returns(t) /\ \A u \in Readers \ {t} : get[u].pc = "idle")
          => GetChunkContract(t)]_vars

\* ======================================================================
\* TransferMessage.from_reader and TransferServer._handle_connection
\* (backend/src/transfer/protocol.py): one connection of the transfer
\* server receiving frames.  Lengths are counted in units of 25 MiB, so
\* that the cap of 100 MiB is MaxMessage and the largest value of a 32-bit
\* length field is MaxDeclared.
\* ======================================================================
MaxMessage == 4
MaxDeclared == 6
MaxSent == 6

\* what the peer puts on the wire for one frame: the two length fields, the
\* number of bytes that follow them before the peer stops sending, and
\* whether the header bytes are the JSON of a header with a known type
PeerFrames ==
    [total_length : 0 .. MaxDeclared, header_length : 0 .. MaxDeclared,
     sent : 0 .. MaxSent, json_ok : BOOLEAN]

NoFrame == [total_length |-> 0, header_length |-> 0, sent |-> 0, json_ok |-> FALSE]

IdleRx == [pc |-> "receive", frame |-> NoFrame, total_length |-> 0, header_length |-> 0,
           read |-> 0, ret |-> "none", closed |-> FALSE]

InitFrame ==
    /\ rx = IdleRx
    /\ RoutingParked /\ StoreParked /\ DownloadParked /\ TransferParked
    /\ ObserveParked /\ LookupParked /\ ShareParked /\ DataParked
    /\ ProtocolParked /\ LifecycleParked /\ ReadersParked
    /\ ManifestsParked

\* readexactly(n) on a stream that still carries `left` bytes of the frame:
\* the bytes handed over (all n, or the partial read of IncompleteReadError)
readexactly(n, left) == IF left >= n THEN n ELSE left

\* protocol.receive() -> from_reader: readexactly(4), unpack and the sanity
\* check on total_length; a peer starts a frame
read_total_length ==
    /\ rx.pc = "receive" /\ ~rx.closed
    /\ \E f \in PeerFrames :
        rx' = [rx EXCEPT !.frame = f, !.total_length = f.total_length,
                         !.header_length = 0, !.read = 0,
                         !.pc = IF f.total_length > MaxMessage THEN "returned" ELSE "header_length",
                         !.ret = IF f.total_length > MaxMessage THEN "None" ELSE "none"]
    /\ UNCHANGED notFrame

\* readexactly(4) and unpack of header_length: no test of the value
read_header_length ==
    /\ rx.pc = "header_length"
    /\ rx' = [rx EXCEPT !.header_length = rx.frame.header_length, !.pc = "header"]
    /\ UNCHANGED notFrame

\* readexactly(header_length) and json.loads
read_header ==
    /\ rx.pc = "header"
    /\ LET got == readexactly(rx.header_length, rx.frame.sent)
           ok == got = rx.header_length /\ rx.frame.json_ok
       IN rx' = [rx EXCEPT !.read = got,
                           !.pc = IF ok THEN "data" ELSE "returned",
                           !.ret = IF ok THEN "none" ELSE "None"]
    /\ UNCHANGED notFrame

\* data_length = total_length - header_length; readexactly(data_length) if
\* it is positive; the message is returned
read_data ==
    /\ rx.pc = "data"
    /\ LET data_length == rx.total_length - rx.header_length
           left == rx.frame.sent - rx.read
           got == IF data_length > 0 THEN readexactly(data_length, left) ELSE 0
           ok == data_length > 0 => got = data_length
       IN rx' = [rx EXCEPT !.read = rx.read + got, !.pc = "returned",
                           !.ret = IF ok THEN "message" ELSE "None"]
    /\ UNCHANGED notFrame

\* _handle_connection: a message goes to its handler and the loop receives
\* again; None breaks the loop and the connection is closed
handle_connection ==
    /\ rx.pc = "returned"
    /\ rx' = IF rx.ret = "message"
             THEN [rx EXCEPT !.pc = "receive"]
             ELSE [rx EXCEPT !.pc = "closed", !.closed = TRUE]
    /\ UNCHANGED notFrame

NextFrame ==
    \/ read_total_length
    \/ read_header_length
    \/ read_header
    \/ read_data
    \/ handle_connection

SpecFrame == InitFrame /\ [][NextFrame]_vars

\* the declared lengths of the frame being received break the rules
BadFrame ==
    \/ rx.frame.total_length > MaxMessage
    \/ rx.frame.header_length > rx.frame.total_length

\* C28: the receiver never reads more than the cap (header plus data) for
\* one frame, and a frame whose declared lengths exceed the cap or are
\* inconsistent (header_length > total_length) is never delivered as a
\* message: the receive returns None and the connection is closed.
C28_CapEnforced ==
    /\ rx.read <= MaxMessage
    /\ (rx.pc = "returned" /\ BadFrame) => rx.ret = "None"
    /\ (rx.pc = "closed") => rx.closed

\* the part that holds: total_length over the cap is rejected before any
\* further byte is read, and the connection is closed
TotalOverCapRejected ==
    rx.frame.total_length > MaxMessage /\ rx.pc \in {"returned", "closed"}
        => rx.ret = "None" /\ rx.read = 0

\* the parts that fail, one by one
ReadWithinCap == rx.read <= MaxMessage
InconsistentRejected ==
    (rx.pc = "returned" /\ rx.frame.header_length > rx.frame.total_length) => rx.ret = "None"

----------------------------------------------------------------------------
(***************************************************************************)
(* One node on its own: P2PNode.share, download and remove_shared_file     *)
(* (backend/src/node.py) over its chunk store, its manifests directory and *)
(* the values and peer records its KademliaNode keeps, with the handlers   *)
(* that answer peers (ChunkUploader, KademliaNode._handle_get_peers).      *)
(* No other node is reachable: find_node returns no contact, so store and  *)
(* announce_peer keep their entry locally and find_value and get_peers     *)
(* answer from the local entries; dht_values is _storage and dht_peers the *)
(* keys of _peers, whose one record is (self.ip, transfer_port).           *)
(***************************************************************************)
MaxShares == 2

NodeKeys == { info_hash_to_dht_key(h) : h \in InfoHashes }

IdleDl == [pc |-> "idle", manifest |-> NoManifest, peers |-> <<>>, failed |-> <<>>,
           ret |-> "none", phase |-> "none", total_chunks |-> 0,
           downloaded_chunks |-> 0, failed_chunks |-> 0, chunk_states |-> <<>>]

\* the call of the node in progress or made last (op, pc, its locals), the
\* files shared and removed so far, and the request of a peer answered last
IdleNode == [op |-> "init", pc |-> "idle", file |-> NoContent, info_hash |-> NoHash,
             manifest |-> NoManifest, i |-> 0, ret |-> "none", shares |-> 0,
             shared |-> {}, removed |-> {},
             request |-> "none", arg |-> NoHash, reply |-> "none", listed |-> {}]

InitNode ==
    /\ fs_chunks = [h \in ChunkHashes |-> NoFile]
    /\ fs_temp = [h \in InfoHashes |-> NoFile]
    /\ \/ /\ fs_out = NoFile
          /\ fs_inode = [n \in Inodes |-> <<>>]
       \/ /\ fs_out = 1
          /\ fs_inode = [n \in Inodes |-> IF n = 1 THEN OldContent ELSE <<>>]
    /\ put = [t \in PutTasks |-> IdlePut]
    /\ ra = IdleRa
    /\ dl = IdleDl
    /\ task = [t \in DlTasks |-> IdleTask]
    /\ pool = [p \in Peers |-> "absent"]
    /\ fs_manifests = [h \in InfoHashes |-> NoManifest]
    /\ dht_values = [k \in NodeKeys |-> NoValue]
    /\ dht_peers = {}
    /\ share_call = IdleNode
    /\ RoutingParked /\ TransferParked
    /\ ObserveParked /\ LookupParked /\ DataParked /\ ProtocolParked
    /\ LifecycleParked /\ ReadersParked /\ FrameParked

\* the caller of store_chunk in store_file
Sharer == CHOOSE t \in PutTasks : \A u \in PutTasks : t <= u

\* what a new call or request starts from: the answer to the last request is
\* forgotten
Fresh(c) == [c EXCEPT !.request = "none", !.arg = NoHash, !.reply = "none",
                      !.listed = {}]

\* share, lines 217-224, and store_file, lines 273-280: create_manifest reads
\* the file, store_manifest writes manifests/<info_hash>.json
share_store_file(f) ==
    /\ share_call.pc = "idle"
    /\ share_call.shares < MaxShares
    /\ LET manifest == create_manifest(f)
       IN  /\ fs_manifests' = [fs_manifests EXCEPT ![manifest.info_hash] = manifest]
           /\ share_call' = [Fresh(share_call) EXCEPT
                               !.op = "share", !.pc = "chunks", !.file = f,
                               !.info_hash = manifest.info_hash,
                               !.manifest = manifest, !.i = 1, !.ret = "none",
                               !.shares = @ + 1, !.removed = @ \ {f}]
    /\ UNCHANGED <<dht_values, dht_peers, fsVars, dlVars, rtVars, tpVars, obVars,
                   lkVars, kdVars, pdVars, lcVars, rdVars, rxVars>>

\* store_file, lines 285-287: store_chunk is called with the next chunk
share_store_chunk ==
    /\ share_call.pc = "chunks"
    /\ share_call.i <= Len(share_call.file)
    /\ LET body == <<share_call.file[share_call.i]>>
       IN  store_chunk_call(Sharer, SHA256(body), body)

\* store_file, lines 285-289: store_chunk returned; its result is not looked
\* at, an exception leaves store_file and share
share_chunk_stored ==
    /\ share_call.pc = "chunks"
    /\ put[Sharer].pc = "idle"
    /\ put[Sharer].ret # "none"
    /\ put' = [put EXCEPT ![Sharer] = IdlePut]
    /\ share_call' = IF put[Sharer].ret = "raised"
                     THEN [share_call EXCEPT !.pc = "idle", !.ret = "raised"]
                     ELSE [share_call EXCEPT !.i = @ + 1]
    /\ UNCHANGED <<fs_inode, fs_chunks, fs_temp, fs_out, ra, fs_manifests,
                   dht_values, dht_peers, dlVars, rtVars, tpVars, obVars,
                   lkVars, kdVars, pdVars, lcVars, rdVars, rxVars>>

\* a KademliaNode.announce_peer that keeps no record of its own
announce_remote_only(peers, info_hash) == peers

\* KademliaNode.announce_peer, lines 271-280: find_node finds nobody, the
\* record (self.ip, port, now) is added to _peers[info_hash]
announce_locally(peers, info_hash) == peers \cup {info_hash}

\* share, lines 225-236: every chunk is stored; the manifest is written
\* again with description and created_by, and the file is announced
share_announce ==
    /\ share_call.pc = "chunks"
    /\ share_call.i > Len(share_call.file)
    /\ put[Sharer].pc = "idle" /\ put[Sharer].ret = "none"
    /\ LET manifest == share_call.manifest
           dht_key == info_hash_to_dht_key(manifest.info_hash)
       IN  /\ fs_manifests' = [fs_manifests EXCEPT ![manifest.info_hash] = manifest]
           /\ dht_peers' = announce_locally(dht_peers, dht_key)
           /\ share_call' = [share_call EXCEPT !.pc = "store"]
    /\ UNCHANGED <<dht_values, fsVars, dlVars, rtVars, tpVars, obVars,
                   lkVars, kdVars, pdVars, lcVars, rdVars, rxVars>>

\* share, lines 239-243, and KademliaNode.store, lines 236-242: without a
\* closest node the value is kept in _storage; share returns the manifest
share_store ==
    /\ share_call.pc = "store"
    /\ LET manifest == share_call.manifest
           dht_key == info_hash_to_dht_key(manifest.info_hash)
       IN  /\ dht_values' = [dht_values EXCEPT ![dht_key] = to_json(manifest)]
           /\ share_call' = [share_call EXCEPT
                               !.pc = "idle", !.ret = "manifest",
                               !.shared = @ \cup {share_call.file},
                               !.removed = @ \ {share_call.file}]
    /\ UNCHANGED <<dht_peers, fs_manifests, fsVars, dlVars, rtVars, tpVars, obVars,
                   lkVars, kdVars, pdVars, lcVars, rdVars, rxVars>>

\* the info hashes the users and peers of this node know: those of the
\* manifests share has returned
Known(info_hash) == dht_values[info_hash_to_dht_key(info_hash)] # NoValue

\* KademliaNode.get_peers, lines 303-314: the local records, as a list; the
\* network adds nothing.  Peer 1 is this node's (self.ip, transfer_port).
get_peers(info_hash) == IF info_hash \in dht_peers THEN <<1>> ELSE <<>>

\* download, lines 258-306, and download_file, lines 329-334: the manifest
\* from find_value (the local _storage) or else from a peer, which here is
\* this node's own uploader (reachable or not) answering from its manifests
\* directory; no peers or no manifest returns None; download_file is entered
\* and stores the manifest
download_call(info_hash, reachable) ==
    /\ share_call.pc = "idle"
    /\ Known(info_hash)
    /\ LET dht_key == info_hash_to_dht_key(info_hash)
           manifest_json == dht_values[dht_key]
           from_dht == IF manifest_json # NoValue THEN from_json(manifest_json)
                       ELSE NoManifest
           peers == get_peers(dht_key)
           sent == IF reachable THEN fs_manifests[info_hash] ELSE NoManifest
           manifest == IF from_dht # NoManifest THEN from_dht
                       ELSE download_manifest(sent, info_hash)
           c == [Fresh(share_call) EXCEPT
                    !.op = "download", !.info_hash = info_hash, !.file = NoContent,
                    !.manifest = manifest, !.i = 0]
       IN  IF peers = <<>> \/ manifest = NoManifest
           THEN /\ share_call' = [c EXCEPT !.ret = "None"]
                /\ UNCHANGED <<dl, fs_manifests>>
           ELSE /\ share_call' = [c EXCEPT !.pc = "download_file", !.ret = "none",
                                           !.removed = @ \ {manifest.info_hash.digest_of}]
                /\ dl' = [IdleDl EXCEPT !.pc = "start", !.manifest = manifest,
                                        !.peers = peers]
                /\ fs_manifests' = [fs_manifests EXCEPT ![manifest.info_hash] = manifest]
    /\ UNCHANGED <<dht_values, dht_peers, task, pool, fsVars, rtVars, tpVars, obVars,
                   lkVars, kdVars, pdVars, lcVars, rdVars, rxVars>>

\* download, lines 301-308: what download_file returned is returned
download_returned ==
    /\ share_call.pc = "download_file"
    /\ dl.pc = "done"
    /\ share_call' = [share_call EXCEPT !.pc = "idle", !.ret = dl.ret]
    /\ dl' = IdleDl
    /\ ra' = IdleRa
    /\ UNCHANGED <<fs_inode, fs_chunks, fs_temp, fs_out, put, task, pool,
                   fs_manifests, dht_values, dht_peers, rtVars, tpVars, obVars,
                   lkVars, kdVars, pdVars, lcVars, rdVars, rxVars>>

\* remove_shared_file, lines 318-321, and delete_manifest, lines 233-241
remove_shared_file(info_hash) ==
    /\ share_call.pc = "idle"
    /\ Known(info_hash)
    /\ fs_manifests' = [fs_manifests EXCEPT ![info_hash] = NoManifest]
    /\ share_call' =
          [Fresh(share_call) EXCEPT
              !.op = "remove_shared_file", !.info_hash = info_hash,
              !.file = NoContent, !.manifest = NoManifest, !.i = 0,
              !.ret = IF fs_manifests[info_hash] # NoManifest THEN "true" ELSE "false",
              !.shared = IF fs_manifests[info_hash] # NoManifest
                         THEN @ \ {info_hash.digest_of} ELSE @,
              !.removed = IF fs_manifests[info_hash] # NoManifest
                          THEN @ \cup {info_hash.digest_of} ELSE @]
    /\ UNCHANGED <<dht_values, dht_peers, fsVars, dlVars, rtVars, tpVars, obVars,
                   lkVars, kdVars, pdVars, lcVars, rdVars, rxVars>>

\* list_shared_files, lines 310-312, and list_manifests, lines 243-255
list_shared_files ==
    /\ share_call.pc = "idle"
    /\ share_call.op # "init"
    /\ share_call' = [Fresh(share_call) EXCEPT
                         !.request = "list_shared_files",
                         !.listed = { h \in InfoHashes : fs_manifests[h] # NoManifest }]
    /\ UNCHANGED <<fs_manifests, dht_values, dht_peers, fsVars, dlVars, rtVars,
                   tpVars, obVars, lkVars, kdVars, pdVars, lcVars, rdVars, rxVars>>

\* ChunkUploader._handle_manifest_request, lines 87-104
handle_manifest_request(info_hash) ==
    /\ share_call.pc = "idle"
    /\ Known(info_hash)
    /\ share_call' = [Fresh(share_call) EXCEPT
                         !.request = "REQUEST_MANIFEST", !.arg = info_hash,
                         !.reply = IF fs_manifests[info_hash] # NoManifest
                                   THEN "MANIFEST_DATA" ELSE "MANIFEST_NOT_FOUND"]
    /\ UNCHANGED <<fs_manifests, dht_values, dht_peers, fsVars, dlVars, rtVars,
                   tpVars, obVars, lkVars, kdVars, pdVars, lcVars, rdVars, rxVars>>

\* ChunkUploader._handle_chunk_request, lines 68-85: get_chunk reads the
\* chunk file by its hash, whatever manifests there are, and removes a file
\* that does not verify
handle_chunk_request(chunk_hash) ==
    /\ share_call.pc = "idle"
    /\ share_call.op # "init"
    /\ LET present == has_chunk(chunk_hash)
           data == IF present THEN fs_inode[fs_chunks[chunk_hash]] ELSE NoContent
           ok == present /\ verified(chunk_hash, data)
           chunks == IF present /\ ~ok THEN [fs_chunks EXCEPT ![chunk_hash] = NoFile]
                     ELSE fs_chunks
       IN  /\ fs_chunks' = chunks
           /\ fs_inode' = Collect(fs_inode, chunks, fs_temp, fs_out, put, ra)
           /\ share_call' = [Fresh(share_call) EXCEPT
                                !.request = "REQUEST_CHUNK", !.arg = chunk_hash,
                                !.reply = IF ok /\ data # <<>> THEN "CHUNK_DATA"
                                          ELSE "CHUNK_NOT_FOUND"]
    /\ UNCHANGED <<fs_temp, fs_out, put, ra, fs_manifests, dht_values, dht_peers,
                   dlVars, rtVars, tpVars, obVars, lkVars, kdVars, pdVars, lcVars,
                   rdVars, rxVars>>

\* KademliaNode._handle_get_peers, lines 410-428: the records of _peers, or
\* else the closest contacts
get_peers_request(info_hash) ==
    /\ share_call.pc = "idle"
    /\ dht_values[info_hash] # NoValue
    /\ share_call' = [Fresh(share_call) EXCEPT
                         !.request = "GET_PEERS", !.arg = info_hash,
                         !.reply = IF info_hash \in dht_peers THEN "peers" ELSE "nodes"]
    /\ UNCHANGED <<fs_manifests, dht_values, dht_peers, fsVars, dlVars, rtVars,
                   tpVars, obVars, lkVars, kdVars, pdVars, lcVars, rdVars, rxVars>>

NextNode ==
    \/ \E f \in FileContents : share_store_file(f)
    \/ share_store_chunk
    \/ store_chunk_open(Sharer)
    \/ store_chunk_write(Sharer)
    \/ store_chunk_rename(Sharer)
    \/ share_chunk_stored
    \/ share_announce
    \/ share_store
    \/ \E h \in InfoHashes, reachable \in BOOLEAN : download_call(h, reachable)
    \/ download_file
    \/ reassemble_downloaded
    \/ reassemble_open
    \/ reassemble_copy
    \/ reassemble_verify
    \/ reassemble_rename
    \/ download_return
    \/ download_returned
    \/ \E h \in InfoHashes : remove_shared_file(h)
    \/ list_shared_files
    \/ \E h \in InfoHashes : handle_manifest_request(h)
    \/ \E c \in ChunkHashes : handle_chunk_request(c)
    \/ \E k \in NodeKeys : get_peers_request(k)

SpecNode == InitNode /\ [][NextNode]_vars

\* C29: on a node on its own, share(path) followed by download of the
\* info_hash of the manifest share returned succeeds, and the file at the
\* output path is byte for byte the file shared.
C29_ShareThenDownload ==
    \A f \in share_call.shared :
        (share_call.op = "download" /\ share_call.pc = "idle"
           /\ share_call.info_hash = SHA256(f))
        => share_call.ret = "path" /\ OutFile = f

\* a file of two chunks has been shared and downloaded
C29_Witness ==
    /\ share_call.op = "download" /\ share_call.pc = "idle"
    /\ share_call.ret = "path"
    /\ \E f \in share_call.shared :
          /\ Len(f) = MaxChunks
          /\ share_call.info_hash = SHA256(f)
          /\ OutFile = f

\* the chunks of the files the node shares
ChunksOf(f) == { SHA256(<<f[i]>>) : i \in 1 .. Len(f) }
SharedChunks == UNION { ChunksOf(f) : f \in share_call.shared }
RemovedChunks == UNION { ChunksOf(f) : f \in share_call.removed }

\* the parts of C30, one by one: after remove_shared_file returned true for
\* a file (and the file was neither shared nor downloaded again) ...
\* ... list_shared_files does not list it
RemovedNotListed ==
    share_call.request = "list_shared_files" =>
        \A f \in share_call.removed : SHA256(f) \notin share_call.listed
\* ... REQUEST_MANIFEST for it is answered with not-found
RemovedManifestNotFound ==
    (share_call.request = "REQUEST_MANIFEST"
        /\ share_call.arg.digest_of \in share_call.removed)
    => share_call.reply = "MANIFEST_NOT_FOUND"
\* ... its chunks (those no file still shared has too) are not served
RemovedChunksNotServed ==
    (share_call.request = "REQUEST_CHUNK"
        /\ share_call.arg \in RemovedChunks \ SharedChunks)
    => share_call.reply = "CHUNK_NOT_FOUND"
\* ... the GET_PEERS handler does not answer with this node as a peer for it
RemovedNotAPeer ==
    (share_call.request = "GET_PEERS"
        /\ \E f \in share_call.removed :
              share_call.arg = info_hash_to_dht_key(SHA256(f)))
    => share_call.reply # "peers"

\* C30: after remove_shared_file(info_hash) returned true the node no longer
\* lists the file as shared, answers REQUEST_MANIFEST for it with not-found,
\* no longer serves the file's chunks, and its GET_PEERS handler no longer
\* returns it as a peer for the file.
C30_RemoveStopsSharing ==
    /\ RemovedNotListed
    /\ RemovedManifestNotFound
    /\ RemovedChunksNotServed
    /\ RemovedNotAPeer

----------------------------------------------------------------------------
(***************************************************************************)
(* The rounds of an iterative lookup                                       *)
(***************************************************************************)
\* the contacts a step of the lookup sends a request to
QueriedInStep == lk'.queried \ lk.queried
\* a step that is a pass of the while loop
IsRound == lk.pc = "loop" /\ lk'.pc = "loop" /\ lk.pending # <<>>

\* the parts of C31: at most ALPHA requests in a round ...
AtMostAlpha == IsRound => Cardinality(QueriedInStep) <= ALPHA
\* ... sent to pending contacts that were not queried before ...
QueriesArePending ==
    IsRound => QueriedInStep \subseteq SeqIds(lk.pending) \ lk.queried
\* ... none of them farther from the target than a pending contact left waiting
ClosestFirst ==
    IsRound =>
        \A x \in QueriedInStep : \A y \in SeqIds(lk.pending) \ (lk.queried \cup QueriedInStep) :
            xor_distance(lk.target, x) < xor_distance(lk.target, y)

\* C31: in each round of an iterative lookup at most ALPHA contacts are
\* queried, and they are the un-queried contacts of pending closest to the
\* target: no un-queried contact closer than a chosen one is left waiting.
C31_ClosestPendingFirst ==
    [][AtMostAlpha /\ QueriesArePending /\ ClosestFirst]_vars

RoundsBounded == [][AtMostAlpha /\ QueriesArePending]_vars

\* the parts of C32: when the lookup has returned, a contact whose request
\* brought no response is not in the routing table ...
FailedRemoved ==
    lk.pc = "done" =>
        \A x \in lk.failed : ~in_table(net[lk.self], lk.self, x)
\* ... and a contact of the table that answered is still in it
AnsweredStay ==
    lk.pc \in {"loop", "done"} =>
        \A x \in (lk.answered \cap lk.seeds) \ lk.failed :
            in_table(net[lk.self], lk.self, x)

\* C32: a contact whose FIND_NODE or FIND_VALUE request failed or timed out
\* is removed from the routing table before the lookup returns; a contact
\* that answered is marked seen and stays.
C32_FailedContactRemoved == FailedRemoved /\ AnsweredStay

----------------------------------------------------------------------------
(***************************************************************************)
(* The three iterative lookups of a node: _iterative_lookup for FIND_NODE  *)
(* and for FIND_VALUE, and _iterative_get_peers.  Every request of a round *)
(* ends, by its response or by the timeout of send_request, so every round *)
(* that has started is completed.                                          *)
(***************************************************************************)
LookupKinds == {"FIND_NODE", "FIND_VALUE", "GET_PEERS"}
\* a FIND_VALUE response that carries the value
ValueReply == << -3 >>

\* the ids looked up: the nearest and the farthest of the id space
KindTargets == { 0, Pow2(IdBits) - 1 }

\* the tables a lookup may start from: the contacts of a set, added in turn
RECURSIVE TableOf(_, _)
TableOf(self, contacts) ==
    IF contacts = <<>> THEN EmptyTable
    ELSE RoutingTable_add_node(TableOf(self, Tail(contacts)), self, Head(contacts))

InitKinds ==
    /\ \E s \in { Pow2(IdBits) - 1 } : \E S \in SUBSET Contacts :
          /\ Cardinality(S) <= K
          /\ net = [n \in {s} |-> TableOf(s, SeqOfSet(S))]
    /\ lk = IdleLookup @@ [kind |-> "none", found |-> FALSE]
    /\ boot = Parked
    /\ RoutingParked /\ StoreParked /\ DownloadParked /\ TransferParked
    /\ ObserveParked /\ ShareParked /\ DataParked /\ ProtocolParked
    /\ LifecycleParked /\ ReadersParked /\ FrameParked /\ ManifestsParked

\* find_node, find_value (after the local miss) and get_peers: the lookup up
\* to its loop, seeded with the K closest contacts of the table
kind_lookup_begin(n, kind, target) ==
    /\ lk.pc = "idle"
    /\ LET closest == find_closest_nodes(net[n].buckets, target, K)
       IN  lk' = [IdleLookup EXCEPT
                     !.pc = IF closest = <<>> THEN "done" ELSE "loop",
                     !.self = n, !.target = target,
                     !.pending = closest, !.observed = SeqIds(closest),
                     !.seeds = SeqIds(closest)]
                 @@ [kind |-> kind, found |-> FALSE]
    /\ UNCHANGED <<net, boot, notLookup>>

\* _iterative_lookup with find_value: the results of a round in order, up to
\* the first that carries the value
RECURSIVE ProcessUntilValue(_, _, _, _, _, _)
ProcessUntilValue(tbl, pending, self, queried, to_query, results) ==
    IF results = <<>> THEN [tbl |-> tbl, pending |-> pending, found |-> FALSE]
    ELSE IF Head(results) = ValueReply
    THEN [tbl |-> tbl, pending |-> pending, found |-> TRUE]
    ELSE IF Head(results) = Raised
    THEN ProcessUntilValue(RoutingTable_remove_node(tbl, self, Head(to_query)), pending,
                           self, queried, Tail(to_query), Tail(results))
    ELSE IF Head(results) = NoReply
    THEN ProcessUntilValue(tbl, pending, self, queried, Tail(to_query), Tail(results))
    ELSE LET r == LearnNodes(tbl, pending, self, queried, Head(results))
         IN  ProcessUntilValue(r.tbl, r.pending, self, queried, Tail(to_query),
                               Tail(results))

\* a get_peers loop that puts every contact of a response into pending,
\* queried or not
RECURSIVE LearnPending_requeued(_, _, _)
LearnPending_requeued(pending, queried, results) ==
    IF results = <<>> THEN pending
    ELSE IF Head(results) \in {NoReply, Raised}
    THEN LearnPending_requeued(pending, queried, Tail(results))
    ELSE LET nodes == Head(results)
             add[i \in 0 .. Len(nodes)] ==
                 IF i = 0 THEN pending ELSE DictSet(add[i - 1], nodes[i])
         IN  LearnPending_requeued(add[Len(nodes)], queried, Tail(results))

\* _iterative_get_peers: the contacts of the responses go to pending, the
\* routing table is left alone
RECURSIVE LearnPending(_, _, _)
LearnPending(pending, queried, results) ==
    IF results = <<>> THEN pending
    ELSE IF Head(results) \in {NoReply, Raised}
    THEN LearnPending(pending, queried, Tail(results))
    ELSE LET nodes == Head(results)
             add[i \in 0 .. Len(nodes)] ==
                 IF i = 0 THEN pending
                 ELSE IF nodes[i] \in queried THEN add[i - 1]
                 ELSE DictSet(add[i - 1], nodes[i])
         IN  LearnPending(add[Len(nodes)], queried, Tail(results))

\* a pass of the loop of a FIND_NODE lookup
find_node_round(results) ==
    /\ lk.kind = "FIND_NODE"
    /\ lookup_round(results, net)

\* a pass of the loop of a FIND_VALUE lookup: with the value found the loop
\* is left at once, the contacts queried still in pending
find_value_round(results) ==
    /\ lk.pc = "loop"
    /\ lk.kind = "FIND_VALUE"
    /\ lk.pending # <<>>
    /\ LET to_query == Slice(lk.pending, ALPHA)
           queried == lk.queried \cup SeqIds(to_query)
           seen == MarkSeen(net[lk.self], lk.self, to_query, results)
           r == ProcessUntilValue(seen, lk.pending, lk.self, queried, to_query, results)
       IN  /\ Len(results) = Len(to_query)
           /\ net' = [net EXCEPT ![lk.self] = r.tbl]
           /\ lk' = [lk EXCEPT
                        !.queried = queried,
                        !.found = r.found,
                        !.pc = IF r.found THEN "found" ELSE "loop",
                        !.pending = IF r.found THEN r.pending
                                    ELSE SelectSeq(r.pending,
                                            LAMBDA x : x \notin SeqIds(to_query))]
    /\ UNCHANGED <<boot, notLookup>>

\* a pass of the loop of _iterative_get_peers
get_peers_round(results) ==
    /\ lk.pc = "loop"
    /\ lk.kind = "GET_PEERS"
    /\ lk.pending # <<>>
    /\ LET to_query == Slice(lk.pending, ALPHA)
           queried == lk.queried \cup SeqIds(to_query)
       IN  /\ Len(results) = Len(to_query)
           /\ lk' = [lk EXCEPT
                        !.queried = queried,
                        !.pending = SelectSeq(LearnPending(lk.pending, queried, results),
                                              LAMBDA x : x \notin SeqIds(to_query))]
    /\ UNCHANGED <<net, boot, notLookup>>

\* the loop is left: nothing is pending, or the value was found
kind_lookup_return ==
    /\ \/ lk.pc = "loop" /\ lk.pending = <<>>
       \/ lk.pc = "found"
    /\ lk' = [lk EXCEPT
                 !.pc = "done",
                 !.closest_nodes = IF lk.kind = "GET_PEERS" THEN <<>>
                                   ELSE final_closest(net[lk.self], lk.self,
                                                      lk.target, lk.queried)]
    /\ UNCHANGED <<net, boot, notLookup>>

RoundResults(more) ==
    [1 .. Len(Slice(lk.pending, ALPHA)) -> ReplyLists(lk.self, lk.target) \cup more]

NextKinds ==
    \/ \E n \in DOMAIN net : \E kind \in LookupKinds : \E target \in KindTargets :
          kind_lookup_begin(n, kind, target)
    \/ lk.pc = "loop" /\ \E results \in RoundResults({}) : find_node_round(results)
    \/ lk.pc = "loop" /\ \E results \in RoundResults({ValueReply}) : find_value_round(results)
    \/ lk.pc = "loop" /\ \E results \in RoundResults({}) : get_peers_round(results)
    \/ kind_lookup_return

SpecKinds ==
    /\ InitKinds
    /\ [][NextKinds]_vars
    /\ WF_vars(lk.pc = "loop" /\ \E results \in RoundResults({}) : find_node_round(results))
    /\ WF_vars(lk.pc = "loop" /\ \E results \in RoundResults({ValueReply}) :
                  find_value_round(results))
    /\ WF_vars(lk.pc = "loop" /\ \E results \in RoundResults({}) : get_peers_round(results))
    /\ WF_vars(kind_lookup_return)

\* the parts of C33: a lookup that has started returns ...
LookupTerminates == (lk.pc = "loop") ~> (lk.pc = "done")
\* ... no contact is sent a second request: what is pending was not queried ...
PendingNotQueried ==
    lk.pc = "loop" =>
        /\ SeqIds(lk.pending) \cap lk.queried = {}
        /\ NoDuplicates(lk.pending)
\* ... and it returns exactly when no un-queried contact is pending, or, for
\* FIND_VALUE, when the value was returned
EndsWhenNothingPending ==
    lk.pc = "done" =>
        \/ SeqIds(lk.pending) \ lk.queried = {}
        \/ lk.kind = "FIND_VALUE" /\ lk.found

----------------------------------------------------------------------------
(***************************************************************************)
(* RoutingTable.get_refresh_targets (backend/src/dht/routing.py)           *)
(***************************************************************************)
\* buckets left empty in the tables get_refresh_targets is called on
MaxEmpty == 2

\* the empty buckets of a table, in ascending order
EmptyBuckets(bs) ==
    SelectSeq([i \in 1 .. IdBits |-> i - 1], LAMBDA i : bs[i] = <<>>)

\* a table of node self with one contact in every bucket outside empty
InitRefresh ==
    /\ node_id \in { 0, Pow2(IdBits) - 1 }
    /\ \E empty \in SUBSET BucketIdx :
          /\ Cardinality(empty) <= MaxEmpty
          /\ buckets = [i \in BucketIdx |->
                           IF i \in empty THEN <<>>
                           ELSE << CHOOSE x \in NodeIds : get_bucket_index(node_id, x) = i >>]
    /\ replacement = [i \in BucketIdx |-> <<>>]
    /\ rt_call = [op |-> "init", empty |-> <<>>, ret |-> <<>>]
    /\ StoreParked /\ DownloadParked /\ TransferParked /\ DhtParked

\* get_refresh_targets: for every empty bucket os.urandom(ID_BYTES) is drawn
\* and xor-ed with node_id; random_ids[k] is the draw for the k-th empty bucket
get_refresh_targets(random_ids) ==
    /\ Len(random_ids) = Len(EmptyBuckets(buckets))
    /\ rt_call' = [op |-> "get_refresh_targets",
                   empty |-> EmptyBuckets(buckets),
                   ret |-> [k \in 1 .. Len(random_ids) |->
                               XorBits(node_id, random_ids[k])]]
    /\ UNCHANGED <<node_id, buckets, replacement, notRouting>>

NextRefresh ==
    \E random_ids \in UNION { [1 .. n -> NodeIds] : n \in 0 .. MaxEmpty } :
        get_refresh_targets(random_ids)

SpecRefresh == InitRefresh /\ [][NextRefresh]_vars

\* the parts of C34: one target for each empty bucket ...
OneTargetPerEmptyBucket ==
    rt_call.op = "get_refresh_targets" =>
        Len(rt_call.ret) = Cardinality({ i \in BucketIdx : buckets[i] = <<>> })
\* ... that lies in its bucket
TargetsInTheirBuckets ==
    rt_call.op = "get_refresh_targets" =>
        \A k \in 1 .. Len(rt_call.ret) :
            get_bucket_index(node_id, rt_call.ret[k]) = rt_call.empty[k]

\* C34: get_refresh_targets emits one target per empty bucket, and the target
\* emitted for empty bucket i lies in bucket i: bucket-index(self, target) = i.
C34_RefreshTargetsInBucket == OneTargetPerEmptyBucket /\ TargetsInTheirBuckets

----------------------------------------------------------------------------
(***************************************************************************)
(* The replacement cache of a bucket: KBucket.add_node, KBucket.remove_node *)
(***************************************************************************)
CacheOnlyWhenFull ==
    \A i \in BucketIdx : replacement[i] # <<>> => Len(buckets[i]) = K

BucketCacheDisjoint ==
    \A i \in BucketIdx : SeqIds(buckets[i]) \cap SeqIds(replacement[i]) = {}

\* C40: in every bucket, after any sequence of add_node and remove_node calls, a
\* non-empty replacement cache implies that the bucket holds K contacts, and no
\* NodeId is in the bucket and in its replacement cache at the same time.
C40_CacheImpliesFullAndDisjoint == CacheOnlyWhenFull /\ BucketCacheDisjoint

\* a remove_node has just promoted a cached contact and the cache still holds one
C40_Witness ==
    /\ rt_call.op = "remove_node" /\ rt_call.ret = TRUE
    /\ \E i \in BucketIdx : replacement[i] # <<>> /\ Len(buckets[i]) = K

----------------------------------------------------------------------------
(***************************************************************************)
(* Downloads that run at the same time on one node.  P2PNode builds one    *)
(* FileDownloader, which owns one ChunkDownloader: every download_file     *)
(* call on the node uses the same connection pool, and each ends with      *)
(* chunk_downloader.close_all() (transfer/downloader.py, lines 207-212 and *)
(* 507-508).  A download here fetches one chunk: first from the first peer *)
(* of its list, then, if that failed, from each peer of the list in turn.  *)
(* The peers answer every request they receive and no request times out.   *)
(***************************************************************************)
MaxConns == NumCallers * (NumPeers + 1)

SharedPeerLists == { ps \in PeerLists : ps # <<>> }

InitShared ==
    /\ call \in [Callers ->
                   { ([IdleCall EXCEPT !.peer = ps[1]]
                          @@ [peers |-> ps, attempt |-> 0, result |-> "none"]) :
                         ps \in SharedPeerLists }
                   \cup { [IdleCall EXCEPT !.pc = "absent"]
                              @@ [peers |-> <<1>>, attempt |-> 0, result |-> "none"] }]
    /\ conns = <<>>
    /\ pooled = [p \in Peers |-> NoConn]
    /\ pool_lock = NoCaller
    /\ RoutingParked /\ StoreParked /\ DownloadParked /\ DhtParked

\* download_file, lines 460-505: the chunk failed, retry_chunk asks the next
\* peer of the list
download_retry(t) ==
    /\ call[t].pc = "done" /\ call[t].ret = "None"
    /\ call[t].attempt < Len(call[t].peers)
    /\ call' = [call EXCEPT ![t].pc = "start", ![t].attempt = @ + 1,
                            ![t].peer = call[t].peers[call[t].attempt + 1],
                            ![t].conn = NoConn, ![t].ret = "none"]
    /\ UNCHANGED <<conns, pooled, pool_lock, notTransfer>>

\* download_file, lines 507-517: the chunk arrived, or every peer of the list
\* failed; close_all closes every pooled connection and empties the pool, and
\* the download fails if the chunk is still missing
close_all(t) ==
    /\ call[t].pc = "done"
    /\ call[t].ret = "data" \/ call[t].attempt = Len(call[t].peers)
    /\ pool_lock = NoCaller
    /\ conns' = [c \in DOMAIN conns |->
                    IF \E p \in Peers : pooled[p] = c
                    THEN [conns[c] EXCEPT !.closed = TRUE] ELSE conns[c]]
    /\ pooled' = [p \in Peers |-> NoConn]
    /\ call' = [call EXCEPT ![t].pc = "finished",
                            ![t].result = IF call[t].ret = "data"
                                          THEN "complete" ELSE "failed"]
    /\ UNCHANGED <<pool_lock, notTransfer>>

NextShared ==
    \/ \E t \in Callers : get_connection(t)
    \/ \E t \in Callers : connect_to_peer(t, TRUE)
    \/ \E t \in Callers : request_chunk_send(t)
    \/ \E c \in 1 .. MaxConns : server_reply(c)
    \/ \E t \in Callers : request_chunk_receive(t)
    \/ \E t \in Callers : request_chunk_eof(t)
    \/ \E t \in Callers : close_connection(t)
    \/ \E t \in Callers : download_retry(t)
    \/ \E t \in Callers : close_all(t)

SpecShared == InitShared /\ [][NextShared]_vars

\* a connection on which a download has a request in flight is not closed by a
\* step of another download
RequestInFlightKept ==
    \A t \in Callers :
        (/\ call[t].pc = "reading"
         /\ ~conns[call[t].conn].closed
         /\ call'[t] = call[t])
        => ~conns'[call[t].conn].closed

\* every download that has ended has its chunk
DownloadsComplete ==
    \A t \in Callers : call[t].pc = "finished" => call[t].result = "complete"

\* at most two downloads run on the node
TwoDownloads == Cardinality({ t \in Callers : call[t].pc # "absent" }) <= 2

PairCompletes == TwoDownloads => DownloadsComplete

\* C36: two downloads that run at the same time on one node do not disturb
\* each other: the end of one never closes a pooled connection on which the
\* other has a request in flight, so a download whose peers serve every chunk
\* correctly and in time completes.
C36_DownloadsIndependent == [][RequestInFlightKept]_vars /\ []DownloadsComplete

----------------------------------------------------------------------------
(***************************************************************************)
(* A shared file and its peer records over time.  P2PNode.share announces  *)
(* the file once (node.py, lines 231-236): announce_peer writes the local  *)
(* record and sends ANNOUNCE_PEER to the closest nodes.  Each node's       *)
(* _periodic_refresh runs _cleanup_old_peers once per maintenance period   *)
(* after its bootstrap has completed; nothing in _periodic_refresh or in   *)
(* P2PNode announces a shared file again.  "sharer" is the node that       *)
(* shares, "remote" a node close to the key.                               *)
(***************************************************************************)
DiscoverNodes == { "sharer", "remote" }
\* the address the sharer's datagrams arrive from
SharerIp == SelfIp + 1

NoShare == [op |-> "init", info_hash |-> 0, port |-> 0, reached |-> FALSE, at |-> -1]

InitDiscover ==
    /\ now = 0
    /\ peer_records = [n \in DiscoverNodes |-> [h \in {} |-> {}]]
    /\ bootstrap_complete \in [DiscoverNodes -> BOOLEAN]
    /\ next_refresh \in [DiscoverNodes -> 0 .. 1]
    /\ kad_call = NoShare
    /\ storage = Parked
    /\ RoutingParked /\ StoreParked /\ DownloadParked /\ TransferParked
    /\ ObserveParked /\ LookupParked /\ ShareParked /\ ProtocolParked
    /\ LifecycleParked
    /\ ReadersParked
    /\ FrameParked
    /\ ManifestsParked

\* time passes, up to the moment a node's _periodic_refresh wakes up
discover_tick ==
    /\ now < MaxTime
    /\ \A n \in DiscoverNodes : now < next_refresh[n]
    /\ now' = now + 1
    /\ UNCHANGED <<peer_records, bootstrap_complete, next_refresh, kad_call,
                   storage, notData>>

\* a node's bootstrap got an answer and finished
node_bootstrap_completes(n) ==
    /\ bootstrap_complete[n] = FALSE
    /\ bootstrap_complete' = [bootstrap_complete EXCEPT ![n] = TRUE]
    /\ UNCHANGED <<now, peer_records, next_refresh, kad_call, storage, notData>>

\* P2PNode.share -> KademliaNode.announce_peer: the local record, and the
\* record the remote node's _handle_announce_peer makes if the ANNOUNCE_PEER
\* reaches it
share_and_announce(info_hash, port, reached) ==
    /\ kad_call.op = "init"
    /\ peer_records' =
          [n \in DiscoverNodes |->
              IF n = "sharer"
              THEN AddRecord(peer_records[n], info_hash, <<SelfIp, port, now>>)
              ELSE IF reached
              THEN AddRecord(peer_records[n], info_hash, <<SharerIp, port, now>>)
              ELSE peer_records[n]]
    /\ kad_call' = [op |-> "share", info_hash |-> info_hash, port |-> port,
                    reached |-> reached, at |-> now]
    /\ UNCHANGED <<now, bootstrap_complete, next_refresh, storage, notData>>

\* _periodic_refresh of one node: one pass of the loop after the sleep
node_periodic_refresh(n) ==
    /\ now = next_refresh[n]
    /\ next_refresh' = [next_refresh EXCEPT ![n] = now + 1]
    /\ peer_records' =
          [peer_records EXCEPT
              ![n] = IF bootstrap_complete[n] THEN cleanup_old_peers(@) ELSE @]
    /\ UNCHANGED <<now, bootstrap_complete, kad_call, storage, notData>>

NextDiscover ==
    \/ discover_tick
    \/ \E n \in DiscoverNodes : node_bootstrap_completes(n)
    \/ \E h \in PeerKeys, port \in Ports, reached \in BOOLEAN :
           share_and_announce(h, port, reached)
    \/ \E n \in DiscoverNodes : node_periodic_refresh(n)

SpecDiscover == InitDiscover /\ [][NextDiscover]_vars

\* the sharer's endpoint is in the records of node n for the file's key
RecordedAt(n) ==
    /\ kad_call.info_hash \in DOMAIN peer_records[n]
    /\ \E r \in peer_records[n][kad_call.info_hash] :
           r[1] \in {SelfIp, SharerIp} /\ r[2] = kad_call.port

\* C37: while a node keeps running and keeps sharing a file it announced, at
\* every later time its endpoint is in the peer records for the file's key,
\* on the sharing node or on a node it announced to.
C37_StaysDiscoverable ==
    kad_call.op = "share" => \E n \in DiscoverNodes : RecordedAt(n)

\* until the records reach the maximum age the file is discoverable
DiscoverableWhileYoung ==
    (kad_call.op = "share" /\ now - kad_call.at < PeerMaxAge) => RecordedAt("sharer")

----------------------------------------------------------------------------
(***************************************************************************)
(* The local node in its own lookup.  A responder's _handle_message adds   *)
(* the requester to its routing table before the handler runs, so the      *)
(* closest nodes it returns can include the requester.  The result loops   *)
(* of _iterative_lookup and _iterative_get_peers test a returned contact   *)
(* against `queried` only.                                                 *)
(***************************************************************************)
SelfNotPending == lk.self \notin SeqIds(lk.pending)

SelfNotQueried == lk.self \notin lk.queried

\* C38: an iterative lookup never sends a request to the local node itself:
\* the local NodeId is never placed in pending or queried, even when a
\* responder returns the requester's own contact among its closest nodes.
C38_NeverQueriesSelf == lk.pc # "idle" => (SelfNotPending /\ SelfNotQueried)

\* the routing table does refuse the local id
SelfNotInTable ==
    \A n \in DOMAIN net : \A i \in BucketIdx : n \notin SeqIds(net[n].buckets[i])

----------------------------------------------------------------------------
(***************************************************************************)
(* Which datagrams complete a pending request.  datagram_received parses   *)
(* the message and looks only at its message_id: if the id is in _pending  *)
(* the message goes to _handle_response, whatever its type and whatever    *)
(* address it came from (addr is not passed on); otherwise it goes to      *)
(* _handle_request.  A datagram is handled before the next one arrives;    *)
(* the sender_id it carries is that of the contact the request went to.    *)
(***************************************************************************)
\* where a datagram comes from: the address request r was sent to, or another
Origins == {"destination", "elsewhere"}

ResponseTypes == {"PONG"}

NoDatagram == [op |-> "init", message_id |-> 0, type |-> "none", from |-> "none",
               branch |-> "none", reply |-> "none"]

InitForeign ==
    /\ _pending = {}
    /\ requests = [r \in Requests |->
                      NoRequest @@ [by |-> [type |-> "none", from |-> "none"]]]
    /\ swept = FALSE
    /\ net = [n \in {DupSelf} |-> EmptyTable]
    /\ kad_call = NoDatagram
    /\ lk = Parked /\ boot = Parked
    /\ now = Parked /\ storage = Parked /\ peer_records = Parked
    /\ bootstrap_complete = Parked /\ next_refresh = Parked
    /\ RoutingParked /\ StoreParked /\ DownloadParked /\ TransferParked
    /\ ObserveParked /\ ShareParked
    /\ LifecycleParked
    /\ ReadersParked
    /\ FrameParked
    /\ ManifestsParked

\* datagram_received for a datagram of the given type and origin that carries
\* message id r: a task for _handle_response if the id is pending, else
\* _handle_request -> _handle_message (sender offered to the routing table,
\* reply of the type's handler sent)
any_datagram_received(r, type, from) ==
    /\ LoopFree
    /\ \A q \in Requests : ~requests[q].task
    /\ requests[r].pc # "idle"
    /\ IF r \in _pending
       THEN /\ requests' = [requests EXCEPT ![r].task = TRUE,
                                            ![r].by = [type |-> type, from |-> from]]
            /\ kad_call' = [op |-> "datagram_received", message_id |-> r,
                            type |-> type, from |-> from,
                            branch |-> "_handle_response", reply |-> "none"]
            /\ UNCHANGED net
       ELSE /\ net' = [net EXCEPT ![DupSelf] =
                          RoutingTable_add_node(@, DupSelf, sender_id(r))]
            /\ kad_call' = [op |-> "datagram_received", message_id |-> r,
                            type |-> type, from |-> from,
                            branch |-> "_handle_request",
                            reply |-> handler_reply(type)]
            /\ UNCHANGED requests
    /\ UNCHANGED <<_pending, swept, lk, boot, now, storage, peer_records,
                   bootstrap_complete, next_refresh,
                   rtVars, fsVars, dlVars, tpVars, obVars, shVars, lcVars, rdVars, rxVars, mfVars>>

NextForeign ==
    \/ \E r \in Requests : send_request_insert(r)
    \/ \E r \in Requests : send_request_send(r)
    \/ \E r \in Requests, type \in DatagramTypes, from \in Origins :
           any_datagram_received(r, type, from)
    \/ \E r \in Requests : handle_response(r)
    \/ pending_tick
    \/ cleanup_pending
    \/ \E r \in Requests : wait_for_returns(r)
    \/ \E r \in Requests : wait_for_raises(r)
    \/ \E r \in Requests : wait_for_timeout(r)
    \/ \E r \in Requests : send_request_except(r)

SpecForeign == InitForeign /\ [][NextForeign]_vars

\* a request is completed only by a response from the address it was sent to
CompletedByItsResponse ==
    \A r \in Requests :
        requests[r].future = "result" =>
            requests[r].by = [type |-> "PONG", from |-> "destination"]

\* a request-type datagram, and a datagram from another address, gets the
\* normal request handling
OthersHandledAsRequests ==
    (/\ kad_call.op = "datagram_received"
     /\ kad_call.type \notin ResponseTypes \/ kad_call.from # "destination")
    => kad_call.branch = "_handle_request"

\* C39: a pending request is completed only by a response-type message from
\* the address the request was sent to; a datagram from another address, or a
\* request-type datagram, with the same message id neither completes the
\* request nor is withheld from normal request handling.
C39_OnlyItsResponseCompletes == CompletedByItsResponse /\ OthersHandledAsRequests

\* what does hold: only a datagram carrying the message id completes a request
CompletedByMatchingId ==
    \A r \in Requests : requests[r].future = "result" => requests[r].by.type # "none"

----------------------------------------------------------------------------
(***************************************************************************)
(* Contacts with their addresses: NodeInfo, KBucket.add_node and           *)
(* KademliaNode._handle_message.  Here a bucket is the sequence of its     *)
(* NodeInfo values, oldest first; the keys are their node_ids.             *)
(***************************************************************************)
\* the clock of this section stops at MaxSeen
MaxSeen == 2
\* the senders: enough to fill a bucket and put one contact in its cache
ContactSenders == { x \in Contacts : x <= K }

NodeInfo(id, ip, port, t) == [node_id |-> id, ip |-> ip, port |-> port, last_seen |-> t]

InfoIds(s) == { s[i].node_id : i \in 1 .. Len(s) }

\* self._nodes[node_id]
InfoOf(s, id) == CHOOSE n \in { s[i] : i \in 1 .. Len(s) } : n.node_id = id

\* OrderedDict[key] = value for a dict of NodeInfo values
InfoSet(s, node) ==
    IF node.node_id \in InfoIds(s)
    THEN [i \in 1 .. Len(s) |-> IF s[i].node_id = node.node_id THEN node ELSE s[i]]
    ELSE Append(s, node)

\* KBucket.add_node at time t: a contact already in the bucket is moved to the
\* end and its last_seen is set; the NodeInfo passed in is dropped
KBucket_add_info(nodes, cache, node, t) ==
    IF node.node_id \in InfoIds(nodes)
    THEN LET old == InfoOf(nodes, node.node_id)
         IN  [nodes |-> Append(SelectSeq(nodes, LAMBDA n : n.node_id # node.node_id),
                               [old EXCEPT !.last_seen = t]),
              cache |-> cache]
    ELSE IF ~is_full(nodes)
    THEN [nodes |-> Append(nodes, node), cache |-> cache]
    ELSE [nodes |-> nodes, cache |-> BoundCache(InfoSet(cache, node))]

InitContact ==
    /\ node_id = Pow2(IdBits) - 1
    /\ buckets = [i \in BucketIdx |-> <<>>]
    /\ replacement = [i \in BucketIdx |-> <<>>]
    /\ rt_call = [op |-> "init", id |-> NoNode, ip |-> 0, port |-> 0, at |-> 0,
                  now |-> 0]
    /\ StoreParked /\ DownloadParked /\ TransferParked /\ DhtParked

\* time passes
contact_tick ==
    /\ rt_call.now < MaxSeen
    /\ rt_call' = [rt_call EXCEPT !.now = @ + 1]
    /\ UNCHANGED <<node_id, buckets, replacement, notRouting>>

\* KademliaNode._handle_message, lines 326-331: a NodeInfo is built from the
\* message's sender_id and the datagram's address and offered to the routing
\* table (RoutingTable.add_node -> KBucket.add_node)
contact_message(x, ip, port) ==
    /\ LET index == get_bucket_index(node_id, x)
           t == rt_call.now
       IN  IF x = node_id \/ index < 0
           THEN UNCHANGED <<buckets, replacement>>
           ELSE LET r == KBucket_add_info(buckets[index], replacement[index],
                                          NodeInfo(x, ip, port, t), t)
                IN  /\ buckets' = [buckets EXCEPT ![index] = r.nodes]
                    /\ replacement' = [replacement EXCEPT ![index] = r.cache]
    /\ rt_call' = [rt_call EXCEPT !.op = "contact_message", !.id = x, !.ip = ip,
                                  !.port = port, !.at = rt_call.now]
    /\ UNCHANGED <<node_id, notRouting>>

NextContact ==
    \/ contact_tick
    \/ \E x \in ContactSenders, ip \in Ips, port \in Ports : contact_message(x, ip, port)

SpecContact == InitContact /\ [][NextContact]_vars

\* the contact stored for the sender of the last message, if the table holds it
Accepted ==
    /\ rt_call.op = "contact_message"
    /\ \E i \in BucketIdx : rt_call.id \in InfoIds(buckets[i])

StoredContact ==
    InfoOf(buckets[get_bucket_index(node_id, rt_call.id)], rt_call.id)

AddressOfLastContact ==
    Accepted => (StoredContact.ip = rt_call.ip /\ StoredContact.port = rt_call.port)

LastSeenRefreshed == Accepted => StoredContact.last_seen = rt_call.at

\* C35: after a message from NodeId X has been received from (ip, port) and
\* accepted by the routing table, the stored contact for X carries that address
\* together with the refreshed last-seen time.
C35_ContactUpdatedOnContact == AddressOfLastContact /\ LastSeenRefreshed

====
